---------------------------- MODULE Spec2Model ----------------------------
(***************************************************************************)
(* A model of the PDF table parser of customer-kpi-tool                    *)
(* (src/src/parsers/pdfParser.ts).                                         *)
(*                                                                         *)
(* parsePdf is modelled stage by stage: its local variables are the        *)
(* VARIABLES below, and each action is one block of the function, from     *)
(* the extracted fragment stream (allItems) to the returned result.        *)
(* The helper functions (groupIntoRows, assignToColumn,                    *)
(* buildCanonicalNameMap, parseNumericValue) are operators computed the    *)
(* way the code computes them; the call harness (args, ret) applies a      *)
(* helper to inputs drawn from bounded sets.                               *)
(*                                                                         *)
(* Text is a TLA+ string; the regular expressions of the source are        *)
(* operators that inspect the characters (SubSeq on strings).              *)
(* Sequences are 1-based: an index of the code is the model's index        *)
(* minus one, and the code's "not found" (-1) is the model's 0.            *)
(***************************************************************************)
EXTENDS Integers, Sequences, FiniteSets, TLC

VARIABLES
    pc,                  \* position in parsePdf, or in the call harness
    allItems,            \* pdfParser.ts:158  the extracted fragment stream
    detectedWeekNumber,  \* pdfParser.ts:192
    sectionItems,        \* pdfParser.ts:220
    rows,                \* pdfParser.ts:271
    headerRowIndex,      \* pdfParser.ts:274  (1-based, 0 = not found)
    headerPositions,     \* pdfParser.ts:315
    dataStartIndex,      \* pdfParser.ts:333  (1-based)
    canonicalNames,      \* pdfParser.ts:339
    result,              \* the PdfParseResult returned (pdfParser.ts:11-14)
    args,                \* call harness: the arguments of a helper call
    ret,                 \* call harness: the value the helper returned
    appData,             \* AppDataContext.tsx:119  React state
    currentWeek,         \* AppDataContext.tsx:120  (0 = null)
    isSyncing,           \* AppDataContext.tsx:128
    lastSyncedAt,        \* AppDataContext.tsx:129  ("null" or "date")
    syncError,           \* AppDataContext.tsx:130  ("null" or the message)
    autoSyncTimer,       \* AppDataContext.tsx:133  the pending timeout and its closure
    inFlight,            \* the cloud operations awaiting their promise
    cloud,               \* the kpi_store_data row of the store (supabaseStorage)
    storedAppData,       \* localStorage['kpi-tool-app-data']
    storedMappings       \* localStorage['kpi-column-mapping-<datasetType>']

appVars == <<appData, currentWeek, isSyncing, lastSyncedAt, syncError, autoSyncTimer,
             inFlight, cloud, storedAppData, storedMappings>>

vars == <<pc, allItems, detectedWeekNumber, sectionItems, rows, headerRowIndex,
          headerPositions, dataStartIndex, canonicalNames, result, args, ret, appVars>>

parseVars == <<allItems, detectedWeekNumber, sectionItems, rows, headerRowIndex,
               headerPositions, dataStartIndex, canonicalNames, result>>

----------------------------------------------------------------------------
(* Program constants *)

Y_TOLERANCE == 3

\* a failed String.prototype.match
NoMatch == "null"

----------------------------------------------------------------------------
(* Characters and strings, as JavaScript's String methods treat them *)

Char(s, i) == SubSeq(s, i, i)

UpperCase == <<"A","B","C","D","E","F","G","H","I","J","K","L","M",
               "N","O","P","Q","R","S","T","U","V","W","X","Y","Z">>
LowerCase == <<"a","b","c","d","e","f","g","h","i","j","k","l","m",
               "n","o","p","q","r","s","t","u","v","w","x","y","z">>
Digits == <<"0","1","2","3","4","5","6","7","8","9">>

IsDigit(c) == \E i \in 1..10 : Digits[i] = c
DigitValue(c) == (CHOOSE i \in 1..10 : Digits[i] = c) - 1

LowerChar(c) ==
    IF \E i \in 1..26 : UpperCase[i] = c
    THEN LowerCase[CHOOSE i \in 1..26 : UpperCase[i] = c]
    ELSE c

\* \s of the regular expressions, and the characters trim() removes
IsWhitespace(c) == c \in {" ", "\t", "\n", "\r"}

\* \w of the regular expressions
IsWordChar(c) ==
    \/ IsDigit(c)
    \/ c = "_"
    \/ \E i \in 1..26 : UpperCase[i] = c \/ LowerCase[i] = c

RECURSIVE toLowerCase(_)
toLowerCase(s) ==
    IF s = "" THEN "" ELSE LowerChar(Char(s, 1)) \o toLowerCase(Tail(s))

RECURSIVE trimStart(_)
trimStart(s) ==
    IF s # "" /\ IsWhitespace(Char(s, 1)) THEN trimStart(Tail(s)) ELSE s

RECURSIVE trimEnd(_)
trimEnd(s) ==
    IF s # "" /\ IsWhitespace(Char(s, Len(s)))
    THEN trimEnd(SubSeq(s, 1, Len(s) - 1))
    ELSE s

trim(s) == trimEnd(trimStart(s))

\* s.startsWith(p), and the same at position i (1-based)
StartsWithAt(s, i, p) ==
    /\ i + Len(p) - 1 <= Len(s)
    /\ SubSeq(s, i, i + Len(p) - 1) = p

startsWith(s, p) == StartsWithAt(s, 1, p)

\* the first position >= i of s that holds no whitespace (Len(s)+1 if none)
RECURSIVE SkipWhitespace(_, _)
SkipWhitespace(s, i) ==
    IF i <= Len(s) /\ IsWhitespace(Char(s, i)) THEN SkipWhitespace(s, i + 1) ELSE i

\* the number of digits of s from position i on
RECURSIVE DigitRun(_, _)
DigitRun(s, i) ==
    IF i <= Len(s) /\ IsDigit(Char(s, i)) THEN 1 + DigitRun(s, i + 1) ELSE 0

\* s.replace(/[chars]/g, '')
RECURSIVE RemoveChars(_, _)
RemoveChars(s, chars) ==
    IF s = "" THEN ""
    ELSE (IF Char(s, 1) \in chars THEN "" ELSE Char(s, 1)) \o RemoveChars(Tail(s), chars)

\* s.replace(/\s+/g, ' ')
RECURSIVE CollapseWhitespace(_)
CollapseWhitespace(s) ==
    IF s = "" THEN ""
    ELSE IF IsWhitespace(Char(s, 1))
         THEN " " \o CollapseWhitespace(SubSeq(s, SkipWhitespace(s, 1), Len(s)))
         ELSE Char(s, 1) \o CollapseWhitespace(Tail(s))

\* texts.join(' ')
RECURSIVE JoinSpace(_)
JoinSpace(texts) ==
    IF texts = <<>> THEN ""
    ELSE IF Len(texts) = 1 THEN texts[1]
    ELSE texts[1] \o " " \o JoinSpace(Tail(texts))

Texts(items) == [i \in 1..Len(items) |-> items[i].text]

----------------------------------------------------------------------------
(* The regular expressions of pdfParser.ts *)

\* /Last\s*Week/i.test(text)
MatchesLastWeek(text) ==
    LET s == toLowerCase(text)
    IN  \E i \in 1..Len(s) :
            /\ StartsWithAt(s, i, "last")
            /\ StartsWithAt(s, SkipWhitespace(s, i + 4), "week")

\* /- YTD\b/i.test(text)
MatchesYtd(text) ==
    LET s == toLowerCase(text)
    IN  \E i \in 1..Len(s) :
            /\ StartsWithAt(s, i, "- ytd")
            /\ (i + 5 > Len(s) \/ ~IsWordChar(Char(s, i + 5)))

\* /^OIS Employee Tracker/i.test(text)
MatchesTrackerTitle(text) == startsWith(toLowerCase(text), "ois employee tracker")

\* the terminator test with the first pattern left out
isSectionEndTitleOnly(text) == MatchesTrackerTitle(text)

\* SECTION_TERMINATOR_PATTERNS.some((re) => re.test(text))
isSectionEnd(text) == MatchesYtd(text) \/ MatchesTrackerTitle(text)

\* /^Total/i.test(text)
MatchesTotal(text) == startsWith(toLowerCase(text), "total")

\* /Staff\s*Member/i.test(text)
MatchesStaffMember(text) ==
    LET s == toLowerCase(text)
    IN  \E i \in 1..Len(s) :
            /\ StartsWithAt(s, i, "staff")
            /\ StartsWithAt(s, SkipWhitespace(s, i + 5), "member")

\* /Report will display/i.test(text)
MatchesFooter(text) ==
    LET s == toLowerCase(text)
    IN  \E i \in 1..Len(s) : StartsWithAt(s, i, "report will display")

\* Whether /Last\s+Week\s+(\d{4,6})/i matches s (lowercased) at position i
WeekMatchAt(s, i) ==
    LET j == SkipWhitespace(s, i + 4)
        k == SkipWhitespace(s, j + 4)
    IN  /\ StartsWithAt(s, i, "last")
        /\ j > i + 4
        /\ StartsWithAt(s, j, "week")
        /\ k > j + 4
        /\ DigitRun(s, k) >= 4

\* fullText.match(/Last\s+Week\s+(\d{4,6})/i): the digits captured by the
\* leftmost match (the quantifier is greedy: up to 6 digits), or NoMatch
weekMatch(fullText) ==
    LET s == toLowerCase(fullText)
        hits == {i \in 1..Len(s) : WeekMatchAt(s, i)}
    IN  IF hits = {} THEN NoMatch
        ELSE LET i == CHOOSE h \in hits : \A g \in hits : h <= g
                 k == SkipWhitespace(s, SkipWhitespace(s, i + 4) + 4)
                 n == IF DigitRun(s, k) > 6 THEN 6 ELSE DigitRun(s, k)
             IN  SubSeq(s, k, k + n - 1)

\* parseInt(digits, 10) of a string of decimal digits
RECURSIVE parseInt(_)
parseInt(digits) ==
    IF digits = "" THEN 0
    ELSE 10 * parseInt(SubSeq(digits, 1, Len(digits) - 1))
         + DigitValue(Char(digits, Len(digits)))

\* the first two digits in place of the last two
sliceFirst2(s) == IF Len(s) <= 2 THEN s ELSE SubSeq(s, 1, 2)

\* digits.slice(-2)
sliceLast2(s) == IF Len(s) <= 2 THEN s ELSE SubSeq(s, Len(s) - 1, Len(s))

----------------------------------------------------------------------------
(* Number(string): JavaScript's StringToNumber.                            *)
(* A number is [mant, exp], its value mant * 10^exp, with mant not a       *)
(* multiple of 10 unless it is 0 (then exp = 0); the infinities carry      *)
(* their name in str.  Values are exact: the texts considered are far      *)
(* below the 53 bits of a double.                                          *)

NaN == [type |-> "NaN", str |-> "", mant |-> 0, exp |-> 0]
JsNull == [type |-> "null", str |-> "", mant |-> 0, exp |-> 0]
Num(m, e) == [type |-> "number", str |-> "", mant |-> m, exp |-> e]
Str(s) == [type |-> "string", str |-> s, mant |-> 0, exp |-> 0]

RECURSIVE Normalise(_, _)
Normalise(m, e) ==
    IF m = 0 THEN Num(0, 0)
    ELSE IF m % 10 = 0 THEN Normalise(m \div 10, e + 1)
    ELSE Num(m, e)

\* StrDecimalLiteral: [+-]? (D+ (. D*)? | . D+) ([eE] [+-]? D+)?
DecimalLiteral(s) ==
    LET signed   == s # "" /\ Char(s, 1) \in {"+", "-"}
        neg      == s # "" /\ Char(s, 1) = "-"
        p0       == IF signed THEN 2 ELSE 1
        nInt     == DigitRun(s, p0)
        p1       == p0 + nInt
        hasDot   == p1 <= Len(s) /\ Char(s, p1) = "."
        nFrac    == IF hasDot THEN DigitRun(s, p1 + 1) ELSE 0
        p2       == IF hasDot THEN p1 + 1 + nFrac ELSE p1
        hasExp   == p2 <= Len(s) /\ Char(s, p2) \in {"e", "E"}
        expSign  == hasExp /\ p2 + 1 <= Len(s) /\ Char(s, p2 + 1) \in {"+", "-"}
        expNeg   == expSign /\ Char(s, p2 + 1) = "-"
        p3       == IF hasExp THEN (IF expSign THEN p2 + 2 ELSE p2 + 1) ELSE p2
        nExp     == IF hasExp THEN DigitRun(s, p3) ELSE 0
        p4       == p3 + nExp
        digits   == SubSeq(s, p0, p1 - 1)
                    \o (IF hasDot THEN SubSeq(s, p1 + 1, p1 + nFrac) ELSE "")
        expVal   == IF hasExp THEN parseInt(SubSeq(s, p3, p3 + nExp - 1)) ELSE 0
        mant     == parseInt(digits)
    IN  IF /\ nInt + nFrac >= 1
           /\ (hasExp => nExp >= 1)
           /\ p4 = Len(s) + 1
        THEN Normalise(IF neg THEN 0 - mant ELSE mant,
                       (IF expNeg THEN 0 - expVal ELSE expVal) - nFrac)
        ELSE NaN

\* the value of c as a digit of the base (16 at most), or -1
RadixDigit(c, base) ==
    LET hex == <<"0","1","2","3","4","5","6","7","8","9","a","b","c","d","e","f">>
        hit == {i \in 1..base : hex[i] = LowerChar(c)}
    IN  IF hit = {} THEN 0 - 1 ELSE (CHOOSE i \in hit : TRUE) - 1

\* the value of the digit string in the base
RECURSIVE RadixValue(_, _)
RadixValue(digits, base) ==
    IF digits = "" THEN 0
    ELSE base * RadixValue(SubSeq(digits, 1, Len(digits) - 1), base)
         + RadixDigit(Char(digits, Len(digits)), base)

\* NonDecimalIntegerLiteral: 0[xX] hex digits | 0[oO] octal | 0[bB] binary
NonDecimalLiteral(s) ==
    LET marker == IF Len(s) >= 2 THEN LowerChar(Char(s, 2)) ELSE ""
        base   == IF marker = "x" THEN 16 ELSE IF marker = "o" THEN 8 ELSE 2
    IN  IF /\ Len(s) >= 3
           /\ Char(s, 1) = "0"
           /\ marker \in {"x", "o", "b"}
           /\ \A i \in 3..Len(s) : RadixDigit(Char(s, i), base) >= 0
        THEN Normalise(RadixValue(SubSeq(s, 3, Len(s)), base), 0)
        ELSE NaN

\* [+-]? Infinity
InfinityLiteral(s) ==
    IF s \in {"Infinity", "+Infinity"} THEN [Num(0, 0) EXCEPT !.str = "Infinity"]
    ELSE IF s = "-Infinity" THEN [Num(0, 0) EXCEPT !.str = "-Infinity"]
    ELSE NaN

Number(s) ==
    LET t == trim(s)
    IN  IF t = "" THEN Num(0, 0)
        ELSE IF InfinityLiteral(t).type # "NaN" THEN InfinityLiteral(t)
        ELSE IF NonDecimalLiteral(t).type # "NaN" THEN NonDecimalLiteral(t)
        ELSE DecimalLiteral(t)

\* the coercion that leaves a trailing percent sign in place
parseNumericValueKeepPercent(raw) ==
    LET trimmed == trim(raw)
        cleaned == trim(RemoveChars(trimmed, {"£", ","}))
        num     == Number(cleaned)
    IN  IF trimmed = "" THEN Str(trimmed)
        ELSE IF num.type # "NaN" /\ cleaned # "" THEN num
        ELSE Str(trimmed)

\* pdfParser.ts:56-71
parseNumericValue(raw) ==
    LET trimmed        == trim(raw)
        cleaned        == trim(RemoveChars(trimmed, {"£", ","}))
        withoutPercent == trim(IF cleaned # "" /\ Char(cleaned, Len(cleaned)) = "%"
                               THEN SubSeq(cleaned, 1, Len(cleaned) - 1)
                               ELSE cleaned)
        num            == Number(withoutPercent)
    IN  IF trimmed = "" THEN Str(trimmed)
        ELSE IF num.type # "NaN" /\ withoutPercent # "" THEN num
        ELSE Str(trimmed)

\* pdfParser.ts:304-307: the test applied to each fragment of the row after
\* the header row
isNonNumeric(text) ==
    LET cleaned == RemoveChars(text, {"£", ",", "%", " ", "\t", "\n", "\r"})
    IN  Number(cleaned).type = "NaN" /\ Len(cleaned) > 0

----------------------------------------------------------------------------
(* groupIntoRows, pdfParser.ts:77-108, and the Array.prototype.sort it uses *)

Abs(n) == IF n < 0 THEN 0 - n ELSE n

\* the comparator with the y order turned round (bottom-to-top)
CompareRowOrderAscending(a, b) ==
    LET yDiff == a.y - b.y
    IN  IF Abs(yDiff) > Y_TOLERANCE THEN yDiff ELSE a.x - b.x

\* pdfParser.ts:81-85
CompareRowOrder(a, b) ==
    LET yDiff == b.y - a.y
    IN  IF Abs(yDiff) > Y_TOLERANCE THEN yDiff ELSE a.x - b.x

\* pdfParser.ts:97, 104
CompareX(a, b) == a.x - b.x

\* the comparator handed to sort: "rows" at line 81, "x" at lines 97 and 104
Compare(cmp, a, b) == IF cmp = "rows" THEN CompareRowOrder(a, b) ELSE CompareX(a, b)

\* ECMAScript's "consistent comparison function" for the elements of items:
\* the comparator's =, < and > are transitive on them (reflexivity and
\* antisymmetry hold of both comparators by their form)
IsConsistentComparator(items, cmp) ==
    \A i, j, k \in 1..Len(items) :
        LET ab == Compare(cmp, items[i], items[j])
            bc == Compare(cmp, items[j], items[k])
            ac == Compare(cmp, items[i], items[k])
        IN  /\ (ab = 0 /\ bc = 0) => ac = 0
            /\ (ab < 0 /\ bc < 0) => ac < 0
            /\ (ab > 0 /\ bc > 0) => ac > 0

\* The stable sort of items under a consistent comparator: every element
\* goes after the elements that compare smaller and after the equal ones
\* that precede it in items
StableSort(items, cmp) ==
    LET n == Len(items)
        rank(k) == 1 + Cardinality({j \in 1..n :
                        \/ Compare(cmp, items[j], items[k]) < 0
                        \/ (Compare(cmp, items[j], items[k]) = 0 /\ j < k)})
    IN  [pos \in 1..n |-> items[CHOOSE k \in 1..n : rank(k) = pos]]

\* What [...items].sort(cmp) can return.  With a consistent comparator the
\* result is the stable sort; otherwise ECMAScript leaves the order
\* implementation-defined, and every permutation of items is an outcome.
SortOutcomes(items, cmp) ==
    IF IsConsistentComparator(items, cmp)
    THEN {StableSort(items, cmp)}
    ELSE {[i \in 1..Len(items) |-> items[p[i]]] : p \in Permutations(1..Len(items))}

\* currentRow.sort((a, b) => a.x - b.x)
SortRow(row) == StableSort(row, "x")

\* pdfParser.ts:87-107: the scan of the sorted items from index i on, with
\* the rows finished so far, the row being built and its reference y
RECURSIVE ScanRows(_, _, _, _, _)
ScanRows(sorted, i, done, currentRow, currentY) ==
    IF i > Len(sorted) THEN Append(done, SortRow(currentRow))
    ELSE LET item == sorted[i]
         IN  IF Abs(item.y - currentY) <= Y_TOLERANCE
             THEN ScanRows(sorted, i + 1, done, Append(currentRow, item), currentY)
             ELSE ScanRows(sorted, i + 1, Append(done, SortRow(currentRow)),
                           <<item>>, item.y)

\* The rows groupIntoRows(items) can return: one per outcome of the sort
groupIntoRows(items) ==
    IF Len(items) = 0 THEN {<<>>}
    ELSE {ScanRows(sorted, 2, <<>>, <<sorted[1]>>, sorted[1].y) :
            sorted \in SortOutcomes(items, "rows")}

----------------------------------------------------------------------------
(* assignToColumn, pdfParser.ts:122-145 *)

\* the best match when a candidate at the same distance replaces the one
\* found before it
RECURSIVE BestMatchLast(_, _, _, _)
BestMatchLast(itemX, candidates, i, best) ==
    IF i > Len(candidates) THEN best
    ELSE IF Abs(itemX - candidates[i].x) <= Abs(itemX - candidates[best].x)
         THEN BestMatchLast(itemX, candidates, i + 1, i)
         ELSE BestMatchLast(itemX, candidates, i + 1, best)

\* pdfParser.ts:133-142: the index of the best match among the candidates
RECURSIVE BestMatch(_, _, _, _)
BestMatch(itemX, candidates, i, best) ==
    IF i > Len(candidates) THEN best
    ELSE IF Abs(itemX - candidates[i].x) < Abs(itemX - candidates[best].x)
         THEN BestMatch(itemX, candidates, i + 1, i)
         ELSE BestMatch(itemX, candidates, i + 1, best)

\* the assignment that takes the nearest header of any page
assignToColumnAnyPage(itemX, itemPage, headers) ==
    IF Len(headers) = 0 THEN [found |-> FALSE, name |-> ""]
    ELSE [found |-> TRUE, name |-> headers[BestMatch(itemX, headers, 2, 1)].name]

\* The column name, or JavaScript's null: [found |-> FALSE]
assignToColumn(itemX, itemPage, headers) ==
    IF Len(headers) = 0 THEN [found |-> FALSE, name |-> ""]
    ELSE LET OnPage(h) == h.page = itemPage
             samePageHeaders == SelectSeq(headers, OnPage)
             candidates == IF Len(samePageHeaders) > 0 THEN samePageHeaders ELSE headers
         IN  [found |-> TRUE,
              name |-> candidates[BestMatch(itemX, candidates, 2, 1)].name]

----------------------------------------------------------------------------
(* buildCanonicalNameMap, pdfParser.ts:401-443 *)

\* pdfParser.ts:407
norm(s) == trim(CollapseWhitespace(toLowerCase(s)))

\* map.set(key, val) on a Map held as a function from its keys
MapSet(map, key, val) ==
    [k \in DOMAIN map \cup {key} |-> IF k = key THEN val ELSE map[k]]

\* map.get(key) ?? key
MapGetOr(map, key) == IF key \in DOMAIN map THEN map[key] ELSE key

\* val.replace(/O\s+IS/gi, 'OIS')
RECURSIVE FixOIS(_)
FixOIS(s) ==
    IF s = "" THEN ""
    ELSE LET j == SkipWhitespace(s, 2)
         IN  IF /\ LowerChar(Char(s, 1)) = "o"
                /\ j > 2
                /\ StartsWithAt(toLowerCase(s), j, "is")
             THEN "OIS" \o FixOIS(SubSeq(s, j + 2, Len(s)))
             ELSE Char(s, 1) \o FixOIS(Tail(s))

\* pdfParser.ts:415-431: the inner loop from index j on, for the header at i
RECURSIVE MergeInto(_, _, _, _, _)
MergeInto(headers, j, used, map, canonical) ==
    IF j > Len(headers) THEN [used |-> used, map |-> map]
    ELSE IF j \in used THEN MergeInto(headers, j + 1, used, map, canonical)
    ELSE LET a == norm(canonical)
             b == norm(headers[j].name)
         IN  IF startsWith(a, b) \/ startsWith(b, a)
             THEN IF Len(headers[j].name) > Len(canonical)
                  THEN MergeInto(headers, j + 1, used \cup {j},
                                 MapSet(map, canonical, headers[j].name),
                                 headers[j].name)
                  ELSE MergeInto(headers, j + 1, used \cup {j},
                                 MapSet(map, headers[j].name, canonical),
                                 canonical)
             ELSE MergeInto(headers, j + 1, used, map, canonical)

\* the outer loop of a merger that also records every group's first name
\* as a key, as a total map would
RECURSIVE MergeFromTotal(_, _, _, _)
MergeFromTotal(headers, i, used, map) ==
    IF i > Len(headers) THEN map
    ELSE IF i \in used THEN MergeFromTotal(headers, i + 1, used, map)
    ELSE LET r == MergeInto(headers, i + 1, used,
                            MapSet(map, headers[i].name, headers[i].name),
                            headers[i].name)
         IN  MergeFromTotal(headers, i + 1, r.used, r.map)

\* pdfParser.ts:410-432: the outer loop from index i on
RECURSIVE MergeFrom(_, _, _, _)
MergeFrom(headers, i, used, map) ==
    IF i > Len(headers) THEN map
    ELSE IF i \in used THEN MergeFrom(headers, i + 1, used, map)
    ELSE LET r == MergeInto(headers, i + 1, used, map, headers[i].name)
         IN  MergeFrom(headers, i + 1, r.used, r.map)

buildCanonicalNameMap(headers) ==
    LET map == MergeFrom(headers, 1, {}, <<>>)
    IN  [k \in DOMAIN map |-> FixOIS(map[k])]

----------------------------------------------------------------------------
(* parsePdf, pdfParser.ts:151-394 *)

\* the week scan run over the stream from the section anchor on only
DetectWeekAfterAnchor(items) ==
    LET hits   == {i \in 1..Len(items) : MatchesLastWeek(items[i].text)}
        from   == IF hits = {} THEN Len(items) + 1
                  ELSE CHOOSE i \in hits : \A j \in hits : i <= j
        digits == weekMatch(JoinSpace(Texts(SubSeq(items, from, Len(items)))))
    IN  IF digits = NoMatch THEN JsNull
        ELSE Normalise(parseInt(sliceLast2(digits)), 0)

\* pdfParser.ts:190-198
DetectWeek(items) ==
    LET digits == weekMatch(JoinSpace(Texts(items)))
    IN  IF digits = NoMatch THEN JsNull
        ELSE Normalise(parseInt(sliceLast2(digits)), 0)

\* pdfParser.ts:205-207: allItems.findIndex(...), 0 when nothing matches
lastWeekIndex(items) ==
    LET hits == {i \in 1..Len(items) : MatchesLastWeek(items[i].text)}
    IN  IF hits = {} THEN 0 ELSE CHOOSE i \in hits : \A j \in hits : i <= j

\* pdfParser.ts:251-253
OnTotalRow(item, section) ==
    LET IsTotalItem(si) == MatchesTotal(si.text)
        totalItems == SelectSeq(section, IsTotalItem)
    IN  /\ Len(totalItems) > 0
        /\ Abs(item.y - totalItems[1].y) <= Y_TOLERANCE
        /\ item.page = totalItems[1].page

\* pdfParser.ts:225: an item on a page before the header's
BeforeHeaderPage(item, headerItem) == item.page < headerItem.page

\* the same with the header's own y let through
AboveHeader(item, headerItem) ==
    item.page = headerItem.page /\ item.y > headerItem.y

\* pdfParser.ts:230: an item of the header's page at or above the header
AtOrAboveHeader(item, headerItem) ==
    item.page = headerItem.page /\ item.y >= headerItem.y

\* CollectSection with the terminator test ahead of the two discards
RECURSIVE CollectSectionTerminatorFirst(_, _, _, _, _)
CollectSectionTerminatorFirst(items, i, headerItem, section, reachedTotal) ==
    IF i > Len(items) THEN section
    ELSE LET item == items[i]
         IN  IF isSectionEnd(item.text)
             THEN section
             ELSE IF BeforeHeaderPage(item, headerItem)
             THEN CollectSectionTerminatorFirst(items, i + 1, headerItem, section,
                                                reachedTotal)
             ELSE IF AtOrAboveHeader(item, headerItem)
             THEN CollectSectionTerminatorFirst(items, i + 1, headerItem, section,
                                                reachedTotal)
             ELSE IF MatchesTotal(item.text)
             THEN CollectSectionTerminatorFirst(items, i + 1, headerItem,
                                                Append(section, item), TRUE)
             ELSE CollectSectionTerminatorFirst(items, i + 1, headerItem,
                                                Append(section, item), reachedTotal)

\* CollectSection with the loop ended at the first item past the Total row
RECURSIVE CollectSectionUntilTotal(_, _, _, _, _)
CollectSectionUntilTotal(items, i, headerItem, section, reachedTotal) ==
    IF i > Len(items) THEN section
    ELSE LET item == items[i]
         IN  IF BeforeHeaderPage(item, headerItem)
             THEN CollectSectionUntilTotal(items, i + 1, headerItem, section, reachedTotal)
             ELSE IF AtOrAboveHeader(item, headerItem)
             THEN CollectSectionUntilTotal(items, i + 1, headerItem, section, reachedTotal)
             ELSE IF isSectionEnd(item.text)
             THEN section
             ELSE IF MatchesTotal(item.text)
             THEN CollectSectionUntilTotal(items, i + 1, headerItem,
                                           Append(section, item), TRUE)
             ELSE IF reachedTotal /\ OnTotalRow(item, section)
             THEN CollectSectionUntilTotal(items, i + 1, headerItem,
                                           Append(section, item), reachedTotal)
             ELSE IF reachedTotal
             THEN section
             ELSE CollectSectionUntilTotal(items, i + 1, headerItem,
                                           Append(section, item), reachedTotal)

\* pdfParser.ts:223-262: the loop over allItems from index i on
RECURSIVE CollectSection(_, _, _, _, _)
CollectSection(items, i, headerItem, section, reachedTotal) ==
    IF i > Len(items) THEN section
    ELSE LET item == items[i]
         IN  IF BeforeHeaderPage(item, headerItem)
             THEN CollectSection(items, i + 1, headerItem, section, reachedTotal)
             ELSE IF AtOrAboveHeader(item, headerItem)
             THEN CollectSection(items, i + 1, headerItem, section, reachedTotal)
             ELSE IF isSectionEnd(item.text)
             THEN section
             ELSE IF MatchesTotal(item.text)
             THEN CollectSection(items, i + 1, headerItem, Append(section, item), TRUE)
             ELSE IF reachedTotal /\ OnTotalRow(item, section)
             THEN CollectSection(items, i + 1, headerItem, Append(section, item),
                                 reachedTotal)
             ELSE CollectSection(items, i + 1, headerItem, Append(section, item),
                                 reachedTotal)

RowText(row) == JoinSpace(Texts(row))

\* the header search keeping the last matching row
FindLastHeaderRow(rs) ==
    LET hits == {i \in 1..Len(rs) : MatchesStaffMember(RowText(rs[i]))}
    IN  IF hits = {} THEN 0 ELSE CHOOSE i \in hits : \A j \in hits : i >= j

\* the header search with headerRowIndex initialised to the first row
FindHeaderRowOrFirst(rs) ==
    LET hits == {i \in 1..Len(rs) : MatchesStaffMember(RowText(rs[i]))}
    IN  IF hits = {} THEN 1 ELSE CHOOSE i \in hits : \A j \in hits : i <= j

\* pdfParser.ts:274-281, 0 when no row matches
FindHeaderRow(rs) ==
    LET hits == {i \in 1..Len(rs) : MatchesStaffMember(RowText(rs[i]))}
    IN  IF hits = {} THEN 0 ELSE CHOOSE i \in hits : \A j \in hits : i <= j

\* the test with every() in place of some()
allNonNumeric(nextRow) == \A i \in 1..Len(nextRow) : isNonNumeric(nextRow[i].text)

\* pdfParser.ts:304-307
hasNonNumeric(nextRow) == \E i \in 1..Len(nextRow) : isNonNumeric(nextRow[i].text)

\* pdfParser.ts:297-312
overflowHeaderItems(rs, h) ==
    IF h + 1 <= Len(rs)
    THEN LET headerPage == rs[h][1].page
             nextRow    == rs[h + 1]
             nextPage   == nextRow[1].page
         IN  IF nextPage # headerPage /\ hasNonNumeric(nextRow)
             THEN nextRow
             ELSE <<>>
    ELSE <<>>

\* pdfParser.ts:317-326
HeaderPositionsOf(items) ==
    [i \in 1..Len(items) |-> [name |-> items[i].text, x |-> items[i].x,
                              page |-> items[i].page]]

\* the row skips without the tests for the summary row
SkipRowFooterOnly(row) == MatchesFooter(RowText(row))

\* the row skips without the test of the single fragments
SkipRowJoinedTextOnly(row) ==
    \/ MatchesTotal(trim(RowText(row)))
    \/ MatchesFooter(RowText(row))

\* pdfParser.ts:348-353
SkipRow(row) ==
    \/ MatchesTotal(trim(RowText(row)))
    \/ \E i \in 1..Len(row) : MatchesTotal(row[i].text)
    \/ MatchesFooter(RowText(row))

HasKey(parsedRow, key) == \E i \in 1..Len(parsedRow) : parsedRow[i].key = key
KeyIndex(parsedRow, key) == CHOOSE i \in 1..Len(parsedRow) : parsedRow[i].key = key

\* the loop that keeps the first text of a column and drops later ones
RECURSIVE AssignItemsKeepFirst(_, _, _, _, _)
AssignItemsKeepFirst(row, i, headers, canonical, parsedRow) ==
    IF i > Len(row) THEN parsedRow
    ELSE LET item       == row[i]
             rawColName == assignToColumn(item.x, item.page, headers)
             colName    == MapGetOr(canonical, rawColName.name)
         IN  IF ~rawColName.found \/ HasKey(parsedRow, colName)
             THEN AssignItemsKeepFirst(row, i + 1, headers, canonical, parsedRow)
             ELSE AssignItemsKeepFirst(row, i + 1, headers, canonical,
                      Append(parsedRow, [key |-> colName, val |-> item.text]))

\* the loop that stores each text under the raw header name
RECURSIVE AssignItemsRawName(_, _, _, _, _)
AssignItemsRawName(row, i, headers, canonical, parsedRow) ==
    IF i > Len(row) THEN parsedRow
    ELSE LET item       == row[i]
             rawColName == assignToColumn(item.x, item.page, headers)
             colName    == rawColName.name
         IN  IF ~rawColName.found
             THEN AssignItemsRawName(row, i + 1, headers, canonical, parsedRow)
             ELSE IF HasKey(parsedRow, colName)
             THEN LET k        == KeyIndex(parsedRow, colName)
                      existing == parsedRow[k].val
                  IN  IF existing # item.text
                      THEN AssignItemsRawName(row, i + 1, headers, canonical,
                               [parsedRow EXCEPT ![k].val = existing \o " " \o item.text])
                      ELSE AssignItemsRawName(row, i + 1, headers, canonical, parsedRow)
             ELSE AssignItemsRawName(row, i + 1, headers, canonical,
                      Append(parsedRow, [key |-> colName, val |-> item.text]))

\* pdfParser.ts:357-376: the loop over the row's items from index i on; a
\* ParsedRow is the sequence of its [key, val] entries in insertion order
RECURSIVE AssignItems(_, _, _, _, _)
AssignItems(row, i, headers, canonical, parsedRow) ==
    IF i > Len(row) THEN parsedRow
    ELSE LET item       == row[i]
             rawColName == assignToColumn(item.x, item.page, headers)
             colName    == MapGetOr(canonical, rawColName.name)
         IN  IF ~rawColName.found
             THEN AssignItems(row, i + 1, headers, canonical, parsedRow)
             ELSE IF HasKey(parsedRow, colName)
             THEN LET k        == KeyIndex(parsedRow, colName)
                      existing == parsedRow[k].val
                  IN  IF existing # item.text
                      THEN AssignItems(row, i + 1, headers, canonical,
                               [parsedRow EXCEPT ![k].val = existing \o " " \o item.text])
                      ELSE AssignItems(row, i + 1, headers, canonical, parsedRow)
             ELSE AssignItems(row, i + 1, headers, canonical,
                      Append(parsedRow, [key |-> colName, val |-> item.text]))

\* pdfParser.ts:384-388
CoerceRow(parsedRow) ==
    [i \in 1..Len(parsedRow) |->
        [key |-> parsedRow[i].key, val |-> parseNumericValue(parsedRow[i].val)]]

\* pdfParser.ts:343-391: the loop over rows from index i on
RECURSIVE BuildParsedRows(_, _, _, _, _)
BuildParsedRows(rs, i, headers, canonical, parsedRows) ==
    IF i > Len(rs) THEN parsedRows
    ELSE IF SkipRow(rs[i])
    THEN BuildParsedRows(rs, i + 1, headers, canonical, parsedRows)
    ELSE LET parsedRow == AssignItems(rs[i], 1, headers, canonical, <<>>)
         IN  IF \/ Len(parsedRow) = 0
                \/ \A k \in 1..Len(parsedRow) : trim(parsedRow[k].val) = ""
             THEN BuildParsedRows(rs, i + 1, headers, canonical, parsedRows)
             ELSE BuildParsedRows(rs, i + 1, headers, canonical,
                                  Append(parsedRows, CoerceRow(parsedRow)))

----------------------------------------------------------------------------
(* The application state of AppDataContext.tsx before the provider mounts *)

\* types/index.ts: the dataset types
DatasetTypes == {"cnl", "digitalReceipts", "ois"}

\* settings.storeNumber when it is undefined
NoStoreNumber == ""

\* types/index.ts:49-53: the fields of AppData that addWeekData and the cloud
\* synchronisation read or write
AppData(weeks, storeNumber) ==
    [weeks |-> weeks, settings |-> [storeNumber |-> storeNumber]]

\* AppDataContext.tsx:47-53
EMPTY_APP_DATA == AppData(<<>>, NoStoreNumber)

\* autoSyncTimerRef without a pending timeout
NoTimer == [armed |-> FALSE, data |-> EMPTY_APP_DATA]

\* supabaseStorage readStoreData: no row for the store
NoRow == [found |-> FALSE, data |-> EMPTY_APP_DATA]

\* columnDetection.ts:39-49: loadSavedMapping returns null
NoMapping == [found |-> FALSE, map |-> <<>>]

AppUnmounted ==
    /\ appData = EMPTY_APP_DATA
    /\ currentWeek = 0
    /\ isSyncing = FALSE
    /\ lastSyncedAt = "null"
    /\ syncError = "null"
    /\ autoSyncTimer = NoTimer
    /\ inFlight = <<>>
    /\ cloud = NoRow
    /\ storedAppData = EMPTY_APP_DATA
    /\ storedMappings = [t \in DatasetTypes |-> NoMapping]

----------------------------------------------------------------------------
(* The actions: parsePdf block by block *)

Item(text, x, y, page) == [text |-> text, x |-> x, y |-> y, page |-> page]

ParseResult(rs, week) == [rows |-> rs, detectedWeekNumber |-> week]

\* pdfParser.ts:181-198 (steps 1-2: the stream is extracted; the week scan)
ScanWeek ==
    /\ pc = "scan"
    /\ IF Len(allItems) = 0
       THEN /\ result' = ParseResult(<<>>, JsNull)
            /\ pc' = "done"
            /\ UNCHANGED detectedWeekNumber
       ELSE /\ detectedWeekNumber' = DetectWeek(allItems)
            /\ pc' = "isolate"
            /\ UNCHANGED result
    /\ UNCHANGED <<allItems, sectionItems, rows, headerRowIndex, headerPositions,
                   dataStartIndex, canonicalNames, args, ret, appVars>>

\* pdfParser.ts:205-266 (step 3)
IsolateSection ==
    /\ pc = "isolate"
    /\ LET idx == lastWeekIndex(allItems)
           section == CollectSection(allItems, 1, allItems[idx], <<>>, FALSE)
       IN  IF idx = 0
           THEN /\ result' = ParseResult(<<>>, detectedWeekNumber)
                /\ pc' = "done"
                /\ UNCHANGED sectionItems
           ELSE /\ sectionItems' = section
                /\ IF Len(section) = 0
                   THEN /\ result' = ParseResult(<<>>, detectedWeekNumber)
                        /\ pc' = "done"
                   ELSE /\ pc' = "group"
                        /\ UNCHANGED result
    /\ UNCHANGED <<allItems, detectedWeekNumber, rows, headerRowIndex,
                   headerPositions, dataStartIndex, canonicalNames, args, ret, appVars>>

\* pdfParser.ts:271-286 (step 4: rows and the header row)
GroupRows ==
    /\ pc = "group"
    /\ \E rs \in groupIntoRows(sectionItems) :
        /\ rows' = rs
        /\ headerRowIndex' = FindHeaderRow(rs)
        /\ IF FindHeaderRow(rs) = 0
           THEN /\ result' = ParseResult(<<>>, detectedWeekNumber)
                /\ pc' = "done"
           ELSE /\ pc' = "headers"
                /\ UNCHANGED result
    /\ UNCHANGED <<allItems, detectedWeekNumber, sectionItems, headerPositions,
                   dataStartIndex, canonicalNames, args, ret, appVars>>

\* pdfParser.ts:293-339 (header positions, data start, canonical names)
ResolveHeaders ==
    /\ pc = "headers"
    /\ LET overflow == overflowHeaderItems(rows, headerRowIndex)
           headers  == HeaderPositionsOf(rows[headerRowIndex])
                       \o HeaderPositionsOf(overflow)
       IN  /\ headerPositions' = headers
           /\ dataStartIndex' = IF Len(overflow) > 0 THEN headerRowIndex + 2
                                                     ELSE headerRowIndex + 1
           /\ canonicalNames' = buildCanonicalNameMap(headers)
    /\ pc' = "data"
    /\ UNCHANGED <<allItems, detectedWeekNumber, sectionItems, rows, headerRowIndex,
                   result, args, ret, appVars>>

\* pdfParser.ts:341-393 (step 5)
BuildRows ==
    /\ pc = "data"
    /\ result' = ParseResult(BuildParsedRows(rows, dataStartIndex, headerPositions,
                                             canonicalNames, <<>>),
                             detectedWeekNumber)
    /\ pc' = "done"
    /\ UNCHANGED <<allItems, detectedWeekNumber, sectionItems, rows, headerRowIndex,
                   headerPositions, dataStartIndex, canonicalNames, args, ret, appVars>>

\* The locals of parsePdf at its entry, for the stream items
ParseEntry(items) ==
    /\ pc = "scan"
    /\ allItems = items
    /\ detectedWeekNumber = JsNull
    /\ sectionItems = <<>>
    /\ rows = <<>>
    /\ headerRowIndex = 0
    /\ headerPositions = <<>>
    /\ dataStartIndex = 0
    /\ canonicalNames = <<>>
    /\ result = ParseResult(<<>>, JsNull)
    /\ args = <<>>
    /\ ret = <<>>
    /\ AppUnmounted

\* A helper is about to be called on args (parsePdf is not running)
HelperEntry(a) ==
    /\ pc = "call"
    /\ allItems = <<>>
    /\ detectedWeekNumber = JsNull
    /\ sectionItems = <<>>
    /\ rows = <<>>
    /\ headerRowIndex = 0
    /\ headerPositions = <<>>
    /\ dataStartIndex = 0
    /\ canonicalNames = <<>>
    /\ result = ParseResult(<<>>, JsNull)
    /\ args = a
    /\ ret = <<>>
    /\ AppUnmounted

RECURSIVE SeqsUpTo(_, _)
SeqsUpTo(S, n) ==
    IF n = 0 THEN {<<>>}
    ELSE LET shorter == SeqsUpTo(S, n - 1)
         IN  shorter \cup {Append(q, e) : q \in {r \in shorter : Len(r) = n - 1}, e \in S}

\* pdfParser.ts:160-179: the stream is extracted page after page, so its
\* pages never decrease (and every text is trimmed and not empty).  The
\* streams of at most n items of S in page order:
RECURSIVE StreamsUpTo(_, _)
StreamsUpTo(S, n) ==
    IF n = 0 THEN {<<>>}
    ELSE LET shorter == StreamsUpTo(S, n - 1)
         IN  shorter \cup
             {Append(q, e) : <<q, e>> \in
                 {qe \in {r \in shorter : Len(r) = n - 1} \X S :
                     Len(qe[1]) = 0 \/ qe[1][Len(qe[1])].page <= qe[2].page}}

----------------------------------------------------------------------------
(* The end-to-end scenario: a two-page report.  Page 1 holds the section   *)
(* anchor, the header row and two data rows; page 2 holds the overflow     *)
(* header and one numeric cell per data row.                               *)

\* y of the page-1 rows
Page1Y == [anchor |-> 760, header |-> 700, row1 |-> 680, row2 |-> 660]

\* the y values a page-2 fragment is drawn from: above, level with, between
\* and below the page-1 rows, and within the tolerance of them
Page2Ys == {740, 720, 700, 698, 690, 680, 678, 660, 658, 640}

\* the x of the page-2 column: left of, and between, the page-1 columns
Page2Xs == {50, 250}

AnchorTexts == {"Last Week", "Last Week 202547"}

Page1Items(anchorText, withPct) ==
    <<Item(anchorText, 100, Page1Y.anchor, 1),
      Item("Staff Member", 100, Page1Y.header, 1), Item("Captured", 200, Page1Y.header, 1),
      Item("Total", 300, Page1Y.header, 1), Item("Pct O", 400, Page1Y.header, 1),
      Item("Ann", 100, Page1Y.row1, 1), Item("5", 200, Page1Y.row1, 1), Item("9", 300, Page1Y.row1, 1)>>
    \o (IF withPct THEN <<Item("55%", 400, Page1Y.row1, 1)>> ELSE <<>>)
    \o <<Item("Bob", 100, Page1Y.row2, 1), Item("7", 200, Page1Y.row2, 1), Item("9", 300, Page1Y.row2, 1)>>
    \o (IF withPct THEN <<Item("77%", 400, Page1Y.row2, 1)>> ELSE <<>>)

Page2Items(x2, yh, y1, y2) ==
    <<Item("Pct Of Total", x2, yh, 2), Item("55%", x2, y1, 2), Item("77%", x2, y2, 2)>>

\* Page 2 is laid out as a table of its own: the header above the first
\* cell above the second, more than the tolerance apart
EndToEndStreams ==
    {Page1Items(a, w) \o Page2Items(x2, yh, y1, y2) :
        a \in AnchorTexts, w \in BOOLEAN, x2 \in Page2Xs,
        <<yh, y1, y2>> \in {t \in Page2Ys \X Page2Ys \X Page2Ys :
                               /\ t[1] - t[2] > Y_TOLERANCE
                               /\ t[2] - t[3] > Y_TOLERANCE}}

InitE2E == \E items \in EndToEndStreams : ParseEntry(items)

ParseNext == ScanWeek \/ IsolateSection \/ GroupRows \/ ResolveHeaders \/ BuildRows

SpecE2E == InitE2E /\ [][ParseNext]_vars

Keys(parsedRow) == {parsedRow[i].key : i \in 1..Len(parsedRow)}

\* C1: in the end-to-end scenario the parse returns exactly 2 rows, each
\* with exactly 4 columns, one of them "Pct Of Total", whatever the y of the
\* page-2 fragments.
C1_EndToEnd ==
    pc = "done" =>
        /\ Len(result.rows) = 2
        /\ \A i \in 1..Len(result.rows) :
            /\ Len(result.rows[i]) = 4
            /\ "Pct Of Total" \in Keys(result.rows[i])

\* the scenario parsed as intended: page 2 level with page 1
C1_Aligned ==
    /\ pc = "done"
    /\ allItems[Len(allItems) - 2].y = Page1Y.header
    /\ allItems[Len(allItems) - 1].y = Page1Y.row1
    /\ allItems[Len(allItems)].y = Page1Y.row2
    /\ Len(result.rows) = 2
    /\ \A i \in 1..2 : Keys(result.rows[i])
                          = {"Staff Member", "Captured", "Total", "Pct Of Total"}

----------------------------------------------------------------------------
(* Section isolation on arbitrary short streams *)

MaxIsoItems == 4

AnchorText == "Last Week"
IsoTerminatorTexts == {"Sales - YTD 2025", "OIS Employee Tracker"}
IsoTotalText == "Total:"
IsoTexts == {AnchorText, IsoTotalText, "Ann"}

\* every text at either y of either page, the report title at the top of
\* either page and the heading of the year-to-date section lower on it
IsoItems ==
    {Item(t, 10, y, p) : t \in IsoTexts, y \in {20, 10}, p \in {1, 2}}
    \cup {Item("OIS Employee Tracker", 10, 20, p) : p \in {1, 2}}
    \cup {Item("Sales - YTD 2025", 10, 10, p) : p \in {1, 2}}

InitIso == \E items \in StreamsUpTo(IsoItems, MaxIsoItems) : ParseEntry(items)

NextIso == ScanWeek \/ IsolateSection

SpecIso == InitIso /\ [][NextIso]_vars


\* the first fragment of the stream that holds the anchor text (0: none)
AnchorIndex ==
    LET hits == {i \in 1..Len(allItems) : allItems[i].text = AnchorText}
    IN  IF hits = {} THEN 0 ELSE CHOOSE i \in hits : \A j \in hits : i <= j

Anchor == allItems[AnchorIndex]

\* "below" the anchor: a later page, or the anchor's page at a smaller y
BelowAnchor(f) ==
    \/ f.page > Anchor.page
    \/ (f.page = Anchor.page /\ f.y < Anchor.y)

\* the first below-anchor fragment holding a terminator text
\* (Len(allItems) + 1: none)
FirstTerminator ==
    LET hits == {i \in 1..Len(allItems) :
                    BelowAnchor(allItems[i]) /\ allItems[i].text \in IsoTerminatorTexts}
    IN  IF hits = {} THEN Len(allItems) + 1
        ELSE CHOOSE i \in hits : \A j \in hits : i <= j

\* the section isolation has run on a stream that holds an anchor
Isolated == pc \in {"group", "done"} /\ AnchorIndex # 0

RECURSIVE IsSubsequence(_, _)
IsSubsequence(s, t) ==
    IF s = <<>> THEN TRUE
    ELSE IF t = <<>> THEN FALSE
    ELSE IF Head(s) = Head(t) THEN IsSubsequence(Tail(s), Tail(t))
    ELSE IsSubsequence(s, Tail(t))

\* C3: every fragment of the isolated section is below the anchor: on a
\* later page, or on the anchor's page at a strictly smaller y (so never a
\* fragment of an earlier page, one at or above the anchor, or the anchor).
C3_SectionBelowAnchor ==
    Isolated => \A k \in 1..Len(sectionItems) : BelowAnchor(sectionItems[k])

\* a stream with a fragment before the anchor's page, one level with the
\* anchor on its page, and a collected fragment
C3_Witness ==
    /\ Isolated
    /\ Len(sectionItems) > 0
    /\ \E i \in 1..Len(allItems) : allItems[i].page < Anchor.page
    /\ \E i \in 1..Len(allItems) :
        /\ i # AnchorIndex
        /\ allItems[i].page = Anchor.page
        /\ allItems[i].y = Anchor.y

\* C4: collection stops at the first below-anchor terminator of the stream:
\* no terminator is in the section, and the section is drawn only from the
\* fragments before it.
C4_StopsAtTerminator ==
    Isolated =>
        /\ \A k \in 1..Len(sectionItems) : sectionItems[k].text \notin IsoTerminatorTexts
        /\ IsSubsequence(sectionItems, SubSeq(allItems, 1, FirstTerminator - 1))

\* a terminator below the anchor, a fragment collected before it, and a
\* below-anchor fragment after it that no fragment before it equals
C4_Witness ==
    /\ Isolated
    /\ FirstTerminator < Len(allItems)
    /\ Len(sectionItems) > 0
    /\ \E j \in (FirstTerminator + 1)..Len(allItems) :
        /\ BelowAnchor(allItems[j])
        /\ allItems[j].text \notin IsoTerminatorTexts
        /\ \A i \in 1..(FirstTerminator - 1) : allItems[i] # allItems[j]

DiscardedTerminator(i) ==
    /\ allItems[i].text \in IsoTerminatorTexts
    /\ ~BelowAnchor(allItems[i])

InSection(f) == \E k \in 1..Len(sectionItems) : sectionItems[k] = f

\* C26: a fragment that matches a terminator pattern but lies on a page
\* before the anchor's, or on the anchor's page at or above the anchor, does
\* not end collection: the below-anchor fragments that follow it in stream
\* order (up to the first below-anchor terminator) are collected.
C26_DiscardBeforeTerminator ==
    Isolated =>
        \A i \in 1..Len(allItems) :
            DiscardedTerminator(i) =>
                \A j \in (i + 1)..(FirstTerminator - 1) :
                    BelowAnchor(allItems[j]) => InSection(allItems[j])

\* a terminator text on the page before the anchor's and one level with the
\* anchor on its page, each followed by a collected fragment that nothing
\* before it equals
C26_Witness ==
    /\ Isolated
    /\ \E i, j \in 1..Len(allItems) :
        /\ DiscardedTerminator(i)
        /\ allItems[i].page < Anchor.page
        /\ i < j
        /\ BelowAnchor(allItems[j])
        /\ InSection(allItems[j])
    /\ \E i, j \in 1..Len(allItems) :
        /\ DiscardedTerminator(i)
        /\ allItems[i].page = Anchor.page
        /\ AnchorIndex < i
        /\ i < j
        /\ BelowAnchor(allItems[j])
        /\ InSection(allItems[j])
        /\ \A k \in 1..(j - 1) : allItems[k] # allItems[j]

----------------------------------------------------------------------------
(* parsePdf on arbitrary short streams *)

MaxItems == 4

HeaderText == "Staff Member"

StreamItems ==
    {Item(t, 10, y, p) : t \in {AnchorText, HeaderText, "5"}, y \in {20, 10}, p \in {1, 2}}

Init == \E items \in StreamsUpTo(StreamItems, MaxItems) : ParseEntry(items)

Next == ParseNext

Spec == Init /\ [][Next]_vars

\* The stream lacks the structure of the report: it is empty, or holds no
\* anchor, or nothing below the anchor (an empty section), or no header
\* fragment below the anchor (no header row in the section)
StructureAbsent ==
    \/ Len(allItems) = 0
    \/ AnchorIndex = 0
    \/ \A i \in 1..Len(allItems) : ~BelowAnchor(allItems[i])
    \/ \A i \in 1..Len(allItems) :
          BelowAnchor(allItems[i]) => allItems[i].text # HeaderText

\* C2: structural absence is never an error: on a stream that is empty, has
\* no anchor, has an empty section or has no header row, the parse takes one
\* of its early returns, so it never enters the header and data blocks (the
\* only ones that read a field of the header row), and it returns no rows.
C2_StructuralAbsence ==
    StructureAbsent =>
        /\ pc \in {"scan", "isolate", "group", "done"}
        /\ pc = "done" => result.rows = <<>>

\* a stream with an anchor and a section of two rows, none a header row
C2_Witness ==
    /\ pc = "done"
    /\ StructureAbsent
    /\ AnchorIndex # 0
    /\ Len(rows) = 2
    /\ headerRowIndex = 0
    /\ result.rows = <<>>

----------------------------------------------------------------------------
(* Header resolution: the anchor, then a short arbitrary tail *)

MaxTail == 3

NumericText == "86%"
NonNumericTexts == {HeaderText, "Pct"}

TailItems ==
    {Item(t, x, y, p) : t \in NonNumericTexts \cup {NumericText},
                        x \in {10, 20}, y \in {20, 10}, p \in {1, 2}}

InitHeader ==
    \E tail \in StreamsUpTo(TailItems, MaxTail) :
        ParseEntry(<<Item(AnchorText, 10, 30, 1)>> \o tail)

SpecHeader == InitHeader /\ [][ParseNext]_vars

HasHeaderText(row) == \E k \in 1..Len(row) : row[k].text = HeaderText

AsHeaderPosition(f) == [name |-> f.text, x |-> f.x, page |-> f.page]

\* the rows are grouped and the header search has run
HeaderSearched == pc \in {"headers", "data"} \/ (pc = "done" /\ Len(rows) > 0)

\* the header positions are recorded
HeadersResolved == pc = "data" \/ (pc = "done" /\ headerRowIndex # 0)

\* C7: the header row is the first row, in the grouper's order, whose text
\* matches the header anchor, and the HeaderPositions recorded from it are
\* one per fragment of that row, in the row's order, each with the
\* fragment's own text, x and page.
C7_HeaderRow ==
    /\ HeaderSearched =>
          IF headerRowIndex = 0
          THEN \A i \in 1..Len(rows) : ~HasHeaderText(rows[i])
          ELSE /\ HasHeaderText(rows[headerRowIndex])
               /\ \A i \in 1..(headerRowIndex - 1) : ~HasHeaderText(rows[i])
    /\ HeadersResolved =>
          /\ Len(headerPositions) >= Len(rows[headerRowIndex])
          /\ \A k \in 1..Len(rows[headerRowIndex]) :
                headerPositions[k] = AsHeaderPosition(rows[headerRowIndex][k])

\* two rows hold the header text, and the header row has two fragments
C7_Witness ==
    /\ HeadersResolved
    /\ Len(rows) = 2
    /\ HasHeaderText(rows[1])
    /\ HasHeaderText(rows[2])
    /\ headerRowIndex = 1
    /\ Len(rows[1]) = 2
    /\ rows[1][1].x < rows[1][2].x

\* the row after the header row
HasNextRow == headerRowIndex + 1 <= Len(rows)
NextRow == rows[headerRowIndex + 1]

\* the next row is on another page than the header row (by the leftmost
\* fragment of each)
OnOtherPage == NextRow[1].page # rows[headerRowIndex][1].page

NonNumericCount(row) == Cardinality({k \in 1..Len(row) : row[k].text \in NonNumericTexts})

\* whether the header positions and the data start are those of an
\* overflow header continuation, or those of none
OverflowTaken ==
    /\ HasNextRow
    /\ Len(headerPositions) = Len(rows[headerRowIndex]) + Len(NextRow)
    /\ \A k \in 1..Len(NextRow) :
          headerPositions[Len(rows[headerRowIndex]) + k] = AsHeaderPosition(NextRow[k])
    /\ dataStartIndex = headerRowIndex + 2

OverflowNotTaken ==
    /\ Len(headerPositions) = Len(rows[headerRowIndex])
    /\ dataStartIndex = headerRowIndex + 1

\* C8 as claimed: the next row is an overflow header continuation exactly
\* when it is on another page and its fragments are predominantly
\* non-numeric (more than half of them).
C8_PredominantlyNonNumeric ==
    HeadersResolved =>
        IF HasNextRow /\ OnOtherPage /\ 2 * NonNumericCount(NextRow) > Len(NextRow)
        THEN OverflowTaken
        ELSE OverflowNotTaken

\* C8 amended: the next row is an overflow header continuation (its
\* fragments appended as HeaderPositions on their own page, data starting
\* one row later) exactly when it is on another page than the header row
\* and at least one of its fragments is non-numeric; otherwise data begins
\* right after the header row.
C8_OverflowHeader ==
    HeadersResolved =>
        IF HasNextRow /\ OnOtherPage /\ NonNumericCount(NextRow) >= 1
        THEN OverflowTaken
        ELSE OverflowNotTaken

\* a next row on page 2 with one non-numeric and one numeric fragment,
\* taken as an overflow header continuation
C8_Witness ==
    /\ HeadersResolved
    /\ HasNextRow
    /\ OnOtherPage
    /\ Len(NextRow) = 2
    /\ NonNumericCount(NextRow) = 1
    /\ OverflowTaken

----------------------------------------------------------------------------
(* groupIntoRows called on arbitrary short fragment lists *)

MaxGroupItems == 3

\* y values within the tolerance of one another (10-12, 12-14), a chain of
\* them (10-12-14, with 10 and 14 apart) and one far from the rest
GroupItems ==
    {Item("a", x, y, p) : x \in {10, 20}, y \in {10, 12, 14, 20}, p \in {1, 2}}

InitGroup == \E items \in SeqsUpTo(GroupItems, MaxGroupItems) : HelperEntry(<<items>>)

CallGroupIntoRows ==
    /\ pc = "call"
    /\ \E rs \in groupIntoRows(args[1]) : ret' = rs
    /\ pc' = "return"
    /\ UNCHANGED <<parseVars, args, appVars>>

SpecGroup == InitGroup /\ [][CallGroupIntoRows]_vars

Near(a, b) == Abs(a.y - b.y) <= Y_TOLERANCE

\* The fragments form rows: any two of them are either in one row (within
\* the tolerance) or in two rows more than the tolerance apart, so "within
\* the tolerance" is transitive
FormsRows(items) ==
    \A i, j, k \in 1..Len(items) :
        (Near(items[i], items[j]) /\ Near(items[j], items[k])) => Near(items[i], items[k])

\* the rows the fragments form, as sets of indices
RowClasses(items) ==
    {{j \in 1..Len(items) : Near(items[i], items[j])} : i \in 1..Len(items)}

Count(seq, v) == Cardinality({i \in 1..Len(seq) : seq[i] = v})

RECURSIVE Flatten(_)
Flatten(rs) == IF rs = <<>> THEN <<>> ELSE Head(rs) \o Flatten(Tail(rs))

\* C6: for fragments that form N rows (inter-row gaps above the tolerance,
\* intra-row gaps within it) groupIntoRows returns exactly N rows, top to
\* bottom, each holding exactly the fragments of its row by ascending x.
C6_RowGrouping ==
    (pc = "return" /\ FormsRows(args[1])) =>
        /\ Len(ret) = Cardinality(RowClasses(args[1]))
        /\ \A i \in 1..Len(ret) :
            /\ Len(ret[i]) > 0
            /\ \A k, l \in 1..Len(ret[i]) :
                /\ Near(ret[i][k], ret[i][l])
                /\ k < l => ret[i][k].x <= ret[i][l].x
        /\ \A i, j \in 1..Len(ret) :
              i < j => \A k \in 1..Len(ret[i]), l \in 1..Len(ret[j]) :
                           ret[i][k].y > ret[j][l].y
        /\ Len(Flatten(ret)) = Len(args[1])
        /\ \A i \in 1..Len(args[1]) :
              Count(Flatten(ret), args[1][i]) = Count(args[1], args[1][i])

\* two rows given bottom row first, the upper one of two fragments at
\* different y, right fragment first
C6_Witness ==
    /\ pc = "return"
    /\ FormsRows(args[1])
    /\ Len(args[1]) = 3
    /\ Len(ret) = 2
    /\ Len(ret[2]) = 2
    /\ ret[2][1].y # ret[2][2].y
    /\ ret[2][1] = args[1][2]
    /\ ret[1][1] = args[1][3]

----------------------------------------------------------------------------
(* buildCanonicalNameMap called on arbitrary short header lists *)

MaxHeaders == 3

\* a header and two longer spellings of it, two spellings of equal length
\* of which one ("Pct  A", with two spaces) is a prefix of the other after
\* whitespace collapsing, an unrelated header, and a truncated and a full
\* header rendered with the spurious space
HeaderNames ==
    {"Pct", "Pct A", "Pct Abc", "Pct  A", "Pct Ab", "Total", "O IS Sa", "O IS Sales"}

HeaderLists ==
    {[i \in 1..Len(names) |-> [name |-> names[i], x |-> 100 * i, page |-> 1]] :
        names \in SeqsUpTo(HeaderNames, MaxHeaders)}

InitCanon == \E headers \in HeaderLists : HelperEntry(<<headers>>)

CallBuildCanonicalNameMap ==
    /\ pc = "call"
    /\ ret' = buildCanonicalNameMap(args[1])
    /\ pc' = "return"
    /\ UNCHANGED <<parseVars, args, appVars>>

SpecCanon == InitCanon /\ [][CallBuildCanonicalNameMap]_vars

\* pdfParser.ts:362: the lookup of a raw name in the returned map
Resolve(name) == MapGetOr(ret, name)

\* one name is a prefix of the other after lowercasing and whitespace
\* collapsing
PrefixRelated(a, b) == startsWith(norm(a), norm(b)) \/ startsWith(norm(b), norm(a))

\* C9: whenever one header name is a prefix of another (normalised), both
\* resolve to the same canonical name, which is at least as long as either:
\* the longest name of the group.
C9_CanonicalUnification ==
    pc = "return" =>
        \A i, j \in 1..Len(args[1]) :
            LET a == args[1][i].name
                b == args[1][j].name
            IN  PrefixRelated(a, b) =>
                    /\ Resolve(a) = Resolve(b)
                    /\ Len(Resolve(a)) >= Len(a)
                    /\ Len(Resolve(a)) >= Len(b)

\* C10: for a pair of header names of which one is a proper prefix of the
\* other (normalised), both resolve to the more complete one, in either
\* order of the list.
C10_PairOrderIndependent ==
    (pc = "return" /\ Len(args[1]) = 2) =>
        LET a == args[1][1].name
            b == args[1][2].name
        IN  (PrefixRelated(a, b) /\ Len(norm(a)) # Len(norm(b))) =>
                LET full == IF Len(norm(a)) > Len(norm(b)) THEN a ELSE b
                IN  Resolve(a) = full /\ Resolve(b) = full

\* the header list with every name replaced by the name it resolves to
CanonicalHeaders ==
    [i \in 1..Len(args[1]) |-> [args[1][i] EXCEPT !.name = Resolve(@)]]

\* C11: the merger run again on the canonical names of a first run maps
\* every one of them to itself.
C11_Idempotent ==
    pc = "return" =>
        LET again == buildCanonicalNameMap(CanonicalHeaders)
        IN  \A i \in 1..Len(CanonicalHeaders) :
                MapGetOr(again, CanonicalHeaders[i].name) = CanonicalHeaders[i].name

\* the names of the header list
RawNames == {args[1][i].name : i \in 1..Len(args[1])}

\* no merge applies to the header at index i: no other header of the list
\* is related to it by prefix
Unmerged(i) ==
    \A j \in 1..Len(args[1]) : j # i => ~PrefixRelated(args[1][i].name, args[1][j].name)

\* C12 as stated: every raw header name is a key of the returned map,
\* mapped to itself when no merge applies.
C12_MapTotal ==
    pc = "return" =>
        \A i \in 1..Len(args[1]) :
            /\ args[1][i].name \in DOMAIN ret
            /\ Unmerged(i) => ret[args[1][i].name] = args[1][i].name

\* C12 as the code has it: the keys of the returned map are raw header
\* names, a name to which no merge applies is not a key, and the lookup
\* (the map's value, or the name itself when it is not a key) resolves it to
\* itself.
C12_LookupTotal ==
    pc = "return" =>
        /\ DOMAIN ret \subseteq RawNames
        /\ \A i \in 1..Len(args[1]) :
              Unmerged(i) => /\ args[1][i].name \notin DOMAIN ret
                             /\ Resolve(args[1][i].name) = args[1][i].name

\* C12: a list with a merged pair and a header no merge applies to
C12_Witness ==
    /\ pc = "return"
    /\ Len(args[1]) = 3
    /\ Unmerged(3)
    /\ args[1][1].name \in DOMAIN ret
    /\ ret[args[1][1].name] = args[1][2].name
    /\ Resolve(args[1][3].name) = args[1][3].name

\* the name still holds the artifact "O IS" that the merger rewrites
HasArtifact(name) == FixOIS(name) # name

\* C13: the canonical name every header resolves to is free of the "O IS"
\* artifact, and the keys of the map are raw header names, left unchanged.
C13_ArtifactRemoved ==
    pc = "return" =>
        /\ DOMAIN ret \subseteq RawNames
        /\ \A i \in 1..Len(args[1]) : ~HasArtifact(Resolve(args[1][i].name))

\* the truncated and the full header merged: the map holds the rewritten
\* canonical name for the truncated one
C13_Merged ==
    /\ pc = "return"
    /\ Len(args[1]) = 2
    /\ args[1][1].name = "O IS Sa"
    /\ args[1][2].name = "O IS Sales"
    /\ Resolve("O IS Sa") = "OIS Sales"

----------------------------------------------------------------------------
(* assignToColumn called on arbitrary fragment positions and header lists *)

MaxAssignHeaders == 3

\* two columns on either page, under either of two names
AssignHeaders == {[name |-> n, x |-> x, page |-> p] : n \in {"A", "B"}, x \in {10, 30}, p \in {1, 2}}

\* left of, between (at equal distance), nearer to the second of, and on
\* the columns
AssignXs == {0, 10, 20, 25}

InitAssign ==
    \E itemX \in AssignXs, itemPage \in {1, 2},
       headers \in SeqsUpTo(AssignHeaders, MaxAssignHeaders) :
        HelperEntry(<<itemX, itemPage, headers>>)

CallAssignToColumn ==
    /\ pc = "call"
    /\ ret' = assignToColumn(args[1], args[2], args[3])
    /\ pc' = "return"
    /\ UNCHANGED <<parseVars, args, appVars>>

SpecAssign == InitAssign /\ [][CallAssignToColumn]_vars

\* the indices of the headers on the fragment's page
SamePage == {i \in 1..Len(args[3]) : args[3][i].page = args[2]}

\* the horizontal distance of the fragment to the header at index i
Distance(i) == Abs(args[1] - args[3][i].x)

\* C14: when at least one header is on the fragment's page, assignToColumn
\* returns the name of a header on that page.
C14_SamePageOnly ==
    (pc = "return" /\ SamePage # {}) =>
        /\ ret.found
        /\ \E i \in SamePage : args[3][i].name = ret.name

\* C14: a header of the other page is strictly nearer than every header of
\* the fragment's page and no header of the fragment's page has its name
C14_Witness ==
    /\ pc = "return"
    /\ SamePage # {}
    /\ \E k \in 1..Len(args[3]) :
          /\ k \notin SamePage
          /\ \A i \in SamePage : /\ Distance(k) < Distance(i)
                                  /\ args[3][k].name # args[3][i].name
    /\ \E i \in SamePage : args[3][i].name = ret.name

\* the indices of the candidates: the headers of the fragment's page, or
\* all of them when none is on it
Candidates == IF SamePage # {} THEN SamePage ELSE 1..Len(args[3])

\* C15: assignToColumn returns null exactly when the header list is empty;
\* otherwise the name of the candidate at the smallest distance, the
\* earliest in the list among those at that distance.
C15_NearestCandidate ==
    pc = "return" =>
        /\ ret.found <=> Len(args[3]) > 0
        /\ Len(args[3]) > 0 =>
              \E k \in Candidates :
                  /\ \A j \in Candidates : Distance(k) <= Distance(j)
                  /\ \A j \in Candidates : Distance(j) = Distance(k) => k <= j
                  /\ ret.name = args[3][k].name

\* C15: no header on the fragment's page, and two headers of the other
\* page with different names at the same distance: the first one wins
C15_Witness ==
    /\ pc = "return"
    /\ Len(args[3]) = 2
    /\ SamePage = {}
    /\ Distance(1) = Distance(2)
    /\ args[3][1].name # args[3][2].name
    /\ ret.found
    /\ ret.name = args[3][1].name

----------------------------------------------------------------------------
(* Data rows under a fixed header row *)

MaxDataItems == 3

\* the section anchor and the header row, on page 1
TableHead ==
    <<Item(AnchorText, 10, 40, 1),
      Item(HeaderText, 10, 30, 1), Item("Sales", 20, 30, 1)>>

\* cells of the two columns, on two lines below the header row
DataItems ==
    {Item(t, x, y, 1) : t \in {"Total", "total", "Ann", "5"}, x \in {10, 20}, y \in {20, 10}}

InitRows == \E data \in SeqsUpTo(DataItems, MaxDataItems) : ParseEntry(TableHead \o data)

SpecRows == InitRows /\ [][ParseNext]_vars

\* the rows from which output rows are built
DataRows == SubSeq(rows, dataStartIndex, Len(rows))

\* the row's first (leftmost) cell is exactly "Total", in any letter case
FirstCellIsTotal(row) == toLowerCase(row[1].text) = "total"

NotTotalRow(row) == ~FirstCellIsTotal(row)

\* C16: no output row comes from a row whose first cell is "Total" in any
\* letter case: the output is what the data rows without those rows give.
C16_TotalsExcluded ==
    (pc = "done" /\ headerRowIndex > 0) =>
        result.rows = BuildParsedRows(SelectSeq(DataRows, NotTotalRow), 1,
                                      headerPositions, canonicalNames, <<>>)

\* C16: a summary row of two cells that starts with "Total", and a data row
\* that is output
C16_Witness ==
    /\ pc = "done"
    /\ headerRowIndex > 0
    /\ \E i \in 1..Len(DataRows) :
          /\ FirstCellIsTotal(DataRows[i])
          /\ Len(DataRows[i]) = 2
          /\ DataRows[i][2].text = "5"
    /\ Len(result.rows) = 1

----------------------------------------------------------------------------
(* One data row of several fragments under the fixed header row *)

MaxCells == 4

\* fragments on one line: two positions nearest the first column, one on
\* the second column
CellItems == {Item(t, x, 20, 1) : t \in {"Ann", "Smith"}, x \in {8, 12, 20}}

InitCells == \E data \in SeqsUpTo(CellItems, MaxCells) : ParseEntry(TableHead \o data)

SpecCells == InitCells /\ [][ParseNext]_vars

\* pdfParser.ts:358-362: the canonical column a fragment is assigned to
ColumnOf(f) ==
    MapGetOr(canonicalNames, assignToColumn(f.x, f.page, headerPositions).name)

\* the fragments of the row assigned to column c, in the row's order
\* (ascending x)
CellsOf(row, c) ==
    LET InColumn(f) == ColumnOf(f) = c
    IN  SelectSeq(row, InColumn)

\* the value of column c in the parsed row
CellValue(parsedRow, c) == parsedRow[KeyIndex(parsedRow, c)].val

\* C17: when exactly two fragments of the data row are assigned to one
\* column, the cell is the two texts joined by one space, left to right,
\* if they differ, and the first text alone if they are identical.
C17_CellAccumulation ==
    (pc = "done" /\ headerRowIndex > 0 /\ Len(DataRows) = 1) =>
        /\ Len(result.rows) = 1
        /\ \A i \in 1..Len(DataRows[1]) :
              LET c  == ColumnOf(DataRows[1][i])
                  fs == CellsOf(DataRows[1], c)
              IN  Len(fs) = 2 =>
                    /\ fs[1].x <= fs[2].x
                    /\ HasKey(result.rows[1], c)
                    /\ CellValue(result.rows[1], c) =
                          IF fs[1].text # fs[2].text
                          THEN Str(fs[1].text \o " " \o fs[2].text)
                          ELSE Str(fs[1].text)

\* C17: the two parts of a name, the right one first in the stream, in the
\* first column, and the same text twice in the second column
C17_Witness ==
    /\ pc = "done"
    /\ Len(allItems) = Len(TableHead) + 4
    /\ allItems[Len(TableHead) + 1] = Item("Smith", 12, 20, 1)
    /\ allItems[Len(TableHead) + 2] = Item("Ann", 8, 20, 1)
    /\ Len(result.rows) = 1
    /\ CellValue(result.rows[1], HeaderText) = Str("Ann Smith")
    /\ HasKey(result.rows[1], "Sales")
    /\ CellValue(result.rows[1], "Sales") = Str("Ann")

----------------------------------------------------------------------------
(* parseNumericValue called on cell values *)

MaxChars == 3

\* the characters cell values are made of here
CellChars == {"£", ",", "%", "1", ".", " ", "N"}

RECURSIVE Concat(_)
Concat(chars) == IF chars = <<>> THEN "" ELSE Head(chars) \o Concat(Tail(chars))

\* pdfParser.ts:169-170, 371-374: a cell holds fragment texts, trimmed and
\* not empty, joined by single spaces: it is not empty and has no white
\* space at either end
CellValues ==
    {v \in {Concat(chars) : chars \in SeqsUpTo(CellChars, MaxChars)}
          \cup {"£1,234", "86%", "N/A", "12 %", "1e3", "-1.50", "0x1F", "Infinity"} :
        v # "" /\ trim(v) = v}

InitNumeric == \E raw \in CellValues : HelperEntry(<<raw>>)

CallParseNumericValue ==
    /\ pc = "call"
    /\ ret' = parseNumericValue(args[1])
    /\ pc' = "return"
    /\ UNCHANGED <<parseVars, args, appVars>>

SpecNumeric == InitNumeric /\ [][CallParseNumericValue]_vars

\* the value without currency symbols and commas and without one trailing
\* percent sign
Stripped(raw) ==
    LET cleaned == trim(RemoveChars(trim(raw), {"£", ","}))
    IN  IF cleaned # "" /\ Char(cleaned, Len(cleaned)) = "%"
        THEN trim(SubSeq(cleaned, 1, Len(cleaned) - 1))
        ELSE cleaned

\* C18: the coerced value is the number the stripped text denotes when it
\* is not empty and parses as a number, and the original trimmed string
\* otherwise; "£1,234" gives 1234, "86%" gives 86 and "N/A" stays "N/A".
C18_NumericCoercion ==
    pc = "return" =>
        /\ ret = IF Stripped(args[1]) # "" /\ Number(Stripped(args[1])).type # "NaN"
                 THEN Number(Stripped(args[1]))
                 ELSE Str(trim(args[1]))
        /\ args[1] = "£1,234" => ret = Num(1234, 0)
        /\ args[1] = "86%" => ret = Num(86, 0)
        /\ args[1] = "N/A" => ret = Str("N/A")
        /\ args[1] \in {"%", "£", ","} => ret = Str(args[1])

\* C18: the percentage of the example coerced
C18_Witness == pc = "return" /\ args[1] = "86%" /\ ret = Num(86, 0)

----------------------------------------------------------------------------
(* Week detection on arbitrary short streams *)

MaxWeekItems == 3

\* the anchor phrase whole and in two fragments, with and without a week
\* id, week ids of 6 and of 7 digits, too few digits, and the header text
WeekTexts ==
    {"Last", "Week", AnchorText, "Last Week 202547", "202547", "1234567", "123", HeaderText}

\* the fragments one under the other on page 1, in stream order
WeekStream(texts) == [i \in 1..Len(texts) |-> Item(texts[i], 10, 100 - 10 * i, 1)]

InitWeek == \E texts \in SeqsUpTo(WeekTexts, MaxWeekItems) : ParseEntry(WeekStream(texts))

SpecWeek == InitWeek /\ [][ParseNext]_vars

\* the space-joined text of the stream, case folded
WeekText == toLowerCase(JoinSpace(Texts(allItems)))

AllWhitespace(s, from, to) ==
    from <= to /\ \A t \in from..to : IsWhitespace(Char(s, t))

AllDigits(s, from, to) ==
    to <= Len(s) /\ \A t \in from..to : IsDigit(Char(s, t))

\* the occurrences <<i, d, n>> of the week-identifier pattern in the text:
\* "last" at i, white space, "week", white space, n digits (4 to 6) from d
WeekTokens ==
    LET s      == WeekText
        lastAt == {i \in 1..Len(s) : StartsWithAt(s, i, "last")}
        weekAt == {w \in 1..Len(s) : StartsWithAt(s, w, "week")}
        digitAt == {d \in 1..Len(s) : IsDigit(Char(s, d))}
    IN  {t \in lastAt \X digitAt \X (4..6) :
            \E w \in weekAt :
                /\ AllWhitespace(s, t[1] + 4, w - 1)
                /\ AllWhitespace(s, w + 4, t[2] - 1)
                /\ AllDigits(s, t[2], t[2] + t[3] - 1)}

\* the week number of the pattern's match: the leftmost occurrence with the
\* most digits; the value of the last two digits of its digit run
ExpectedWeek ==
    IF WeekTokens = {} THEN JsNull
    ELSE LET t == CHOOSE u \in WeekTokens :
                      \A v \in WeekTokens :
                          u[1] < v[1] \/ (u[1] = v[1] /\ u[3] >= v[3])
             e == t[2] + t[3] - 1
         IN  Normalise(10 * DigitValue(Char(WeekText, e - 1))
                       + DigitValue(Char(WeekText, e)), 0)

\* C19: once the stream is scanned, detectedWeekNumber is the value of the
\* last two digits of the matched run of 4 to 6 digits after the anchor
\* phrase, and null when the joined text holds no such occurrence.
C19_WeekDetection ==
    pc # "scan" => detectedWeekNumber = ExpectedWeek

\* C19: the anchor phrase and the week id 202547 in separate fragments
C19_Witness ==
    /\ pc = "done"
    /\ Texts(allItems) = <<"Last", "Week", "202547">>
    /\ detectedWeekNumber = Num(47, 0)

\* C20: on every return path the result carries the week number of the
\* complete stream.
C20_WeekOnEveryReturn ==
    pc = "done" => result.detectedWeekNumber = ExpectedWeek

\* C20: the week id stands in the anchor fragment, which is not part of the
\* section, and rows are produced
C20_Witness ==
    /\ pc = "done"
    /\ Texts(allItems) = <<"Last Week 202547", HeaderText, "123">>
    /\ Len(sectionItems) = 2
    /\ Len(result.rows) = 1
    /\ result.detectedWeekNumber = Num(47, 0)

----------------------------------------------------------------------------
(* groupIntoRows and the order of its input *)

\* the fragments of a row, each with the number of times it occurs
RowContent(row) == [f \in {row[k] : k \in 1..Len(row)} |-> Count(row, f)]

\* the same rows in the same order, each with the same fragments
SameRows(rs, qs) ==
    /\ Len(rs) = Len(qs)
    /\ \A i \in 1..Len(rs) : RowContent(rs[i]) = RowContent(qs[i])

\* the input sequence rearranged by the permutation p of its indices
Permuted(items, p) == [i \in 1..Len(items) |-> items[p[i]]]

\* C21: every permutation of the input gives the same rows with the same
\* fragments in each row.  Stated for the inputs on which the comparator is
\* a consistent order, where the result of the sort is fully defined.
C21_OrderIndependent ==
    (pc = "return" /\ IsConsistentComparator(args[1], "rows")) =>
        \A p \in Permutations(1..Len(args[1])) :
            \A rs \in groupIntoRows(Permuted(args[1], p)) : SameRows(rs, ret)

\* two fragments at one x within the tolerance of one another and a third
\* within the tolerance of the lower one only: one row
C21_OneRow ==
    /\ pc = "return"
    /\ Len(args[1]) = 3
    /\ IsConsistentComparator(args[1], "rows")
    /\ args[1][1].x = args[1][2].x
    /\ Near(args[1][1], args[1][2])
    /\ Near(args[1][1], args[1][3])
    /\ ~Near(args[1][2], args[1][3])
    /\ Len(ret) = 1

\* C22: any two fragments of the input whose y values differ by at most the
\* tolerance are placed in the same row, whatever their pages and whatever
\* other fragments are present.  Stated for the inputs on which the
\* comparator is a consistent order.
C22_WithinToleranceSameRow ==
    (pc = "return" /\ IsConsistentComparator(args[1], "rows")) =>
        \A i, j \in 1..Len(args[1]) :
            Near(args[1][i], args[1][j]) =>
                \E k \in 1..Len(ret) :
                    /\ Count(ret[k], args[1][i]) > 0
                    /\ Count(ret[k], args[1][j]) > 0

\* two fragments within the tolerance on different pages share a row
C22_SameRowAcrossPages ==
    /\ pc = "return"
    /\ Len(args[1]) = 2
    /\ args[1][1].page # args[1][2].page
    /\ args[1][1].y # args[1][2].y
    /\ Near(args[1][1], args[1][2])
    /\ Len(ret) = 1
    /\ Len(ret[1]) = 2

----------------------------------------------------------------------------
(* The output rows of a two-page table whose second header is truncated on *)
(* page 1 and complete on page 2                                           *)

MaxOutItems == 3

TruncatedHead ==
    <<Item(AnchorText, 10, 40, 1),
      Item(HeaderText, 10, 30, 1), Item("Pct", 20, 30, 1)>>

\* the complete header on page 2, and cells of the two columns on one line
\* of either page
OutItems ==
    {Item("Pct A", 20, 25, 2)}
        \cup {Item(t, x, 20, p) : t \in {"Ann", "5%"}, x \in {10, 20}, p \in {1, 2}}

InitOut == \E data \in StreamsUpTo(OutItems, MaxOutItems) : ParseEntry(TruncatedHead \o data)

SpecOut == InitOut /\ [][ParseNext]_vars

\* pdfParser.ts:362: the canonical names of the recorded header positions
CanonicalNamesOfHeaders ==
    {IF headerPositions[h].name \in DOMAIN canonicalNames
     THEN canonicalNames[headerPositions[h].name]
     ELSE headerPositions[h].name : h \in 1..Len(headerPositions)}

IsBlank(val) == val.type = "string" /\ trim(val.str) = ""

IsNumberOrTrimmedString(val) ==
    \/ val.type = "number"
    \/ val.type = "string" /\ trim(val.str) = val.str

\* C23: every output row has at least one column, not all of its values are
\* blank, each value is a number or a trimmed string, every key is the
\* canonical name of some recorded header position (and occurs once).
C23_WellFormedRows ==
    pc = "done" =>
        \A r \in 1..Len(result.rows) :
            LET row == result.rows[r]
            IN  /\ Len(row) >= 1
                /\ \E k \in 1..Len(row) : ~IsBlank(row[k].val)
                /\ \A k \in 1..Len(row) :
                      /\ IsNumberOrTrimmedString(row[k].val)
                      /\ row[k].key \in CanonicalNamesOfHeaders
                      /\ \A l \in 1..Len(row) : row[l].key = row[k].key => l = k

\* an output row of a number under the merged header name, taken from the
\* page where the header is truncated, and a string
C23_Witness ==
    /\ pc = "done"
    /\ Len(headerPositions) = 3
    /\ canonicalNames = [n \in {"Pct"} |-> "Pct A"]
    /\ Len(result.rows) = 1
    /\ result.rows[1] = <<[key |-> HeaderText, val |-> Str("Ann")],
                          [key |-> "Pct A", val |-> Num(5, 0)]>>

----------------------------------------------------------------------------
(* The data rows that are skipped, under the fixed header row *)

MaxSkipItems == 3

TotalsKeyword == "Total"

\* cells on two lines below the header row: names, the totals keyword, a
\* longer word that starts with it in the second column, the footer
SkipItems ==
    {Item("Ann", x, y, 1) : x \in {10, 20}, y \in {20, 10}}
        \cup {Item(t, 20, y, 1) : t \in {TotalsKeyword, "Totals"}, y \in {20, 10}}
        \cup {Item("Report will display", 10, 10, 1)}

InitSkip == \E data \in SeqsUpTo(SkipItems, MaxSkipItems) : ParseEntry(TableHead \o data)

SpecSkip == InitSkip /\ [][ParseNext]_vars

\* pdfParser.ts:357-388: the output row built from a row that is not skipped
OutputOf(row) == CoerceRow(AssignItems(row, 1, headerPositions, canonicalNames, <<>>))

\* one output row for each row from index i on whose index is in K, in order
RECURSIVE OutputsOf(_, _)
OutputsOf(i, K) ==
    IF i > Len(rows) THEN <<>>
    ELSE (IF i \in K THEN <<OutputOf(rows[i])>> ELSE <<>>) \o OutputsOf(i + 1, K)

DataRowIndexes == {i \in 1..Len(rows) : i >= dataStartIndex}

\* the three conditions with "a fragment equals the totals keyword"
StatedSkip(row) ==
    \/ MatchesTotal(trim(RowText(row)))
    \/ \E k \in 1..Len(row) : row[k].text = TotalsKeyword
    \/ MatchesFooter(RowText(row))

\* the three conditions with "a fragment starts with the totals keyword, in
\* any letter case"
StartsWithSkip(row) ==
    \/ MatchesTotal(trim(RowText(row)))
    \/ \E k \in 1..Len(row) : startsWith(toLowerCase(row[k].text), toLowerCase(TotalsKeyword))
    \/ MatchesFooter(RowText(row))

\* C24 (as stated): every row at or after the data-start index whose joined
\* text does not start with the totals keyword, in which no fragment equals
\* the totals keyword exactly, and which does not match the footer phrase
\* produces exactly one output row, and no other row produces one.
C24_OnlyStatedSkips ==
    (pc = "done" /\ headerRowIndex > 0) =>
        result.rows = OutputsOf(1, {i \in DataRowIndexes : ~StatedSkip(rows[i])})

\* C24 (amended): every row at or after the data-start index whose joined
\* text does not start with the totals keyword, in which no fragment starts
\* with the totals keyword (in any letter case), and which does not match
\* the footer phrase produces exactly one output row, and no other row
\* produces one.
C24_OnlyStartsWithSkips ==
    (pc = "done" /\ headerRowIndex > 0) =>
        result.rows = OutputsOf(1, {i \in DataRowIndexes : ~StartsWithSkip(rows[i])})

\* a row whose second cell starts with the totals keyword without being it
\* is skipped, and the row below it is output
C24_Witness ==
    /\ pc = "done"
    /\ Len(DataRows) = 2
    /\ Texts(DataRows[1]) = <<"Ann", "Totals">>
    /\ Texts(DataRows[2]) = <<"Ann">>
    /\ ~StatedSkip(DataRows[1])
    /\ Len(result.rows) = 1
    /\ result.rows[1] = OutputOf(DataRows[2])

----------------------------------------------------------------------------
(* The overflow header of the two-page report *)

\* the header fragment of page 2 in the end-to-end streams
OverflowHeader == allItems[Len(allItems) - 2]

\* C25: the header row being on page 1 and the section holding a row of a
\* non-numeric header fragment on page 2, that fragment is recorded as a
\* header position with page 2, wherever its y falls relative to the y
\* values of the rows of page 1.
C25_OverflowCaptured ==
    pc = "done" =>
        \E h \in 1..Len(headerPositions) :
            headerPositions[h] = AsHeaderPosition(OverflowHeader)

\* the page-2 header between the header row and the first data row of page
\* 1 is the row after the header row, and is recorded
C25_CapturedBelowHeader ==
    /\ pc = "done"
    /\ OverflowHeader.y < Page1Y.header - Y_TOLERANCE
    /\ OverflowHeader.y > Page1Y.row1 + Y_TOLERANCE
    /\ dataStartIndex = headerRowIndex + 2
    /\ headerPositions[Len(headerPositions)] = AsHeaderPosition(OverflowHeader)

----------------------------------------------------------------------------
(* AppDataContext.tsx: the provider's state and its callbacks *)

\* types/index.ts:13-31
WeekData(weekNumber, signUps, receipts, sales) ==
    [weekNumber |-> weekNumber,
     cnl |-> [signUps |-> signUps],
     digitalReceipts |-> [byPerson |-> receipts],
     ois |-> [byPerson |-> sales]]

\* the merge that takes every dataset of the incoming week
MergeWeekOverwrite(existing, week) == week

\* AppDataContext.tsx:272-276
MergeWeek(existing, week) ==
    LET withCnl      == IF week.cnl.signUps > 0
                        THEN [existing EXCEPT !.cnl = week.cnl]
                        ELSE existing
        withReceipts == IF Len(week.digitalReceipts.byPerson) > 0
                        THEN [withCnl EXCEPT !.digitalReceipts = week.digitalReceipts]
                        ELSE withCnl
    IN  IF Len(week.ois.byPerson) > 0
        THEN [withReceipts EXCEPT !.ois = week.ois]
        ELSE withReceipts

\* AppDataContext.tsx:262-286: the state updater of addWeekData
AddWeek(prev, week) ==
    LET hits == {i \in 1..Len(prev.weeks) : prev.weeks[i].weekNumber = week.weekNumber}
    IN  IF hits # {}
        THEN LET existing == prev.weeks[CHOOSE i \in hits : \A j \in hits : i <= j]
                 merged   == MergeWeek(existing, week)
             IN  [prev EXCEPT !.weeks =
                     [i \in 1..Len(prev.weeks) |->
                         IF prev.weeks[i].weekNumber = week.weekNumber
                         THEN merged ELSE prev.weeks[i]]]
        ELSE [prev EXCEPT !.weeks = Append(prev.weeks, week)]

\* AppDataContext.tsx:218-240: the effect that runs when appData has become
\* data: it is persisted, the pending timer is cleared and, with a store
\* number, a new one is set whose callback closes over data
PersistAndSchedule(data) ==
    /\ storedAppData' = data
    /\ autoSyncTimer' = IF data.settings.storeNumber # NoStoreNumber
                        THEN [armed |-> TRUE, data |-> data]
                        ELSE NoTimer

\* the parser is not running
ParserIdle ==
    /\ pc = "app"
    /\ allItems = <<>>
    /\ detectedWeekNumber = JsNull
    /\ sectionItems = <<>>
    /\ rows = <<>>
    /\ headerRowIndex = 0
    /\ headerPositions = <<>>
    /\ dataStartIndex = 0
    /\ canonicalNames = <<>>
    /\ result = ParseResult(<<>>, JsNull)
    /\ args = <<>>
    /\ ret = <<>>

\* AppDataContext.tsx:261-289 and the effect of 218-240
addWeekData(week) ==
    /\ pc = "app"
    /\ appData' = AddWeek(appData, week)
    /\ currentWeek' = week.weekNumber
    /\ PersistAndSchedule(AddWeek(appData, week))
    /\ args' = <<week>>
    /\ UNCHANGED <<pc, parseVars, ret, isSyncing, lastSyncedAt, syncError, inFlight,
                   cloud, storedMappings>>

----------------------------------------------------------------------------
(* addWeekData called again and again by a new user *)

WeekNumbers == {47, 48}

Receipts == {<<>>, <<[name |-> "Ann", captured |-> 1, totalTransactions |-> 2]>>}

Sales == {<<>>, <<[name |-> "Ann", revenue |-> 5]>>}

Weeks ==
    {WeekData(n, c, r, o) : n \in WeekNumbers, c \in {0, 3, 5}, r \in Receipts, o \in Sales}

\* AppDataContext.tsx:58-76, 119-130: the provider mounted on an empty
\* localStorage
InitWeeks ==
    /\ ParserIdle
    /\ AppUnmounted

NextWeeks == \E week \in Weeks : addWeekData(week)

SpecWeeks == InitWeeks /\ [][NextWeeks]_vars

\* AppDataContext.tsx:274-276: the incoming week carries data for the dataset
NonEmptyDataset(week, d) ==
    IF d = "cnl" THEN week.cnl.signUps > 0 ELSE Len(week[d].byPerson) > 0

\* C27: in every addWeekData call each stored week keeps its place and its
\* week number; a dataset of a stored week w changes only when the call is
\* for week w and carries non-empty data for that dataset, and the entries
\* of all other weeks are left unchanged.
C27_NeverWiped ==
    [][\A i \in 1..Len(appData.weeks) :
          /\ i <= Len(appData'.weeks)
          /\ appData'.weeks[i].weekNumber = appData.weeks[i].weekNumber
          /\ \A d \in DatasetTypes :
                appData'.weeks[i][d] # appData.weeks[i][d] =>
                    /\ args'[1].weekNumber = appData.weeks[i].weekNumber
                    /\ NonEmptyDataset(args'[1], d)
          /\ args'[1].weekNumber # appData.weeks[i].weekNumber =>
                appData'.weeks[i] = appData.weeks[i]]_vars

\* week 47 holds the sign-ups of one upload and the receipts of a later one
\* that carried no sign-ups, and week 48 is stored beside it
C27_Witness ==
    /\ Len(appData.weeks) = 2
    /\ appData.weeks[1].weekNumber = 47
    /\ appData.weeks[1].cnl.signUps = 3
    /\ Len(appData.weeks[1].digitalReceipts.byPerson) = 1
    /\ appData.weeks[2].weekNumber = 48
    /\ args = <<WeekData(47, 0, appData.weeks[1].digitalReceipts.byPerson, <<>>)>>

----------------------------------------------------------------------------
(* Cloud synchronisation: syncToCloud, loadFromCloud, the debounced timer, *)
(* and the requests on their way to and from the store's row               *)

MaxInFlight == 2

StoreNumber == "1234"

\* supabaseStorage (part_001:39-47)
prepareForStorage(data) == [data EXCEPT !.settings.storeNumber = NoStoreNumber]

\* a request of writeStoreData (part_001:100-115) that the server has not
\* handled yet
WriteRequest(storeNumber, data) ==
    [kind |-> "write", storeNumber |-> storeNumber, data |-> data,
     handled |-> FALSE, remote |-> NoRow]

\* a request of readStoreData (part_001:73-94)
ReadRequest(storeNumber) ==
    [kind |-> "read", storeNumber |-> storeNumber, data |-> EMPTY_APP_DATA,
     handled |-> FALSE, remote |-> NoRow]

\* AppDataContext.tsx:148-157: syncToCloud, whose closure holds data, up to
\* its await
StartSync(data) ==
    IF data.settings.storeNumber = NoStoreNumber
    THEN UNCHANGED <<isSyncing, syncError, inFlight>>
    ELSE /\ isSyncing' = TRUE
         /\ syncError' = "null"
         /\ inFlight' = Append(inFlight, WriteRequest(data.settings.storeNumber, data))

\* AppDataContext.tsx:176-185: loadFromCloud, whose closure holds data, up
\* to its await
StartLoad(data) ==
    IF data.settings.storeNumber = NoStoreNumber
    THEN UNCHANGED <<isSyncing, syncError, inFlight>>
    ELSE /\ isSyncing' = TRUE
         /\ syncError' = "null"
         /\ inFlight' = Append(inFlight, ReadRequest(data.settings.storeNumber))

\* AppDataContext.tsx:295-297 and the effect of 218-240
updateSettings(settings) ==
    /\ pc = "app"
    /\ appData' = [appData EXCEPT !.settings = settings]
    /\ PersistAndSchedule([appData EXCEPT !.settings = settings])
    /\ UNCHANGED <<pc, parseVars, args, ret, currentWeek, isSyncing, lastSyncedAt,
                   syncError, inFlight, cloud, storedMappings>>

\* AppDataContext.tsx:228-231: the timeout fires and calls the syncToCloud
\* of the render that set it
AutoSyncTimerFires ==
    /\ pc = "app"
    /\ autoSyncTimer.armed
    /\ Len(inFlight) < MaxInFlight
    /\ StartSync(autoSyncTimer.data)
    /\ autoSyncTimer' = NoTimer
    /\ UNCHANGED <<pc, parseVars, args, ret, appData, currentWeek, lastSyncedAt,
                   cloud, storedAppData, storedMappings>>

\* Settings.tsx:389-390: the button, disabled while isSyncing or without a
\* store number, calls the syncToCloud of the current render
syncToCloud ==
    /\ pc = "app"
    /\ ~isSyncing
    /\ appData.settings.storeNumber # NoStoreNumber
    /\ Len(inFlight) < MaxInFlight
    /\ StartSync(appData)
    /\ UNCHANGED <<pc, parseVars, args, ret, appData, currentWeek, lastSyncedAt,
                   autoSyncTimer, cloud, storedAppData, storedMappings>>

\* Settings.tsx:397-398: the button calls the loadFromCloud of the current
\* render
loadFromCloud ==
    /\ pc = "app"
    /\ ~isSyncing
    /\ appData.settings.storeNumber # NoStoreNumber
    /\ Len(inFlight) < MaxInFlight
    /\ StartLoad(appData)
    /\ UNCHANGED <<pc, parseVars, args, ret, appData, currentWeek, lastSyncedAt,
                   autoSyncTimer, cloud, storedAppData, storedMappings>>

\* part_001:73-78, 100-110: the server handles request i, an upsert of the
\* row or a select of it; requests are handled in any order
ServerHandles(i) ==
    /\ pc = "app"
    /\ i \in 1..Len(inFlight)
    /\ ~inFlight[i].handled
    /\ IF inFlight[i].kind = "write"
       THEN /\ cloud' = [found |-> TRUE, data |-> prepareForStorage(inFlight[i].data)]
            /\ inFlight' = [inFlight EXCEPT ![i].handled = TRUE]
       ELSE /\ inFlight' = [inFlight EXCEPT ![i].handled = TRUE, ![i].remote = cloud]
            /\ UNCHANGED cloud
    /\ UNCHANGED <<pc, parseVars, args, ret, appData, currentWeek, isSyncing,
                   lastSyncedAt, syncError, autoSyncTimer, storedAppData, storedMappings>>

Without(seq, i) == SubSeq(seq, 1, i - 1) \o SubSeq(seq, i + 1, Len(seq))

\* AppDataContext.tsx:189-195
Merged(remote, storeNumber) == [remote EXCEPT !.settings.storeNumber = storeNumber]

\* AppDataContext.tsx:157-165, 185-213: the promise of request i settles
\* and the rest of syncToCloud or loadFromCloud runs, with its finally
OperationSettles(i, outcome) ==
    /\ pc = "app"
    /\ i \in 1..Len(inFlight)
    /\ outcome = "ok" => inFlight[i].handled
    /\ inFlight' = Without(inFlight, i)
    /\ isSyncing' = FALSE
    /\ IF outcome = "ok"
       THEN lastSyncedAt' = "date" /\ UNCHANGED syncError
       ELSE syncError' = "Failed" /\ UNCHANGED lastSyncedAt
    /\ IF outcome = "ok" /\ inFlight[i].kind = "read" /\ inFlight[i].remote.found
       THEN LET merged == Merged(inFlight[i].remote.data, inFlight[i].storeNumber)
            IN  /\ appData' = merged
                /\ PersistAndSchedule(merged)
                /\ currentWeek' = IF Len(merged.weeks) > 0
                                  THEN merged.weeks[Len(merged.weeks)].weekNumber
                                  ELSE currentWeek
       ELSE UNCHANGED <<appData, storedAppData, autoSyncTimer, currentWeek>>
    /\ UNCHANGED <<pc, parseVars, args, ret, cloud, storedMappings>>

\* the sign-ups of week 47 entered, and entered again
SyncWeeks == {WeekData(47, c, <<>>, <<>>) : c \in {3, 5}}

LastWeekNumber(data) ==
    IF Len(data.weeks) > 0 THEN data.weeks[Len(data.weeks)].weekNumber ELSE 0

\* AppDataContext.tsx:119-130, 218-253: the provider mounted on the stored
\* data; with a store number the timer is set and loadFromCloud is awaiting
Mounted(data, row) ==
    /\ ParserIdle
    /\ appData = data
    /\ currentWeek = LastWeekNumber(data)
    /\ lastSyncedAt = "null"
    /\ syncError = "null"
    /\ storedAppData = data
    /\ storedMappings = [t \in DatasetTypes |-> NoMapping]
    /\ cloud = row
    /\ IF data.settings.storeNumber # NoStoreNumber
       THEN /\ autoSyncTimer = [armed |-> TRUE, data |-> data]
            /\ isSyncing = TRUE
            /\ inFlight = <<ReadRequest(data.settings.storeNumber)>>
       ELSE /\ autoSyncTimer = NoTimer
            /\ isSyncing = FALSE
            /\ inFlight = <<>>

InitSync ==
    \E store \in {NoStoreNumber, StoreNumber},
       row \in {NoRow, [found |-> TRUE, data |-> AppData(<<WeekData(47, 3, <<>>, <<>>)>>, NoStoreNumber)]} :
        Mounted(AppData(<<>>, store), row)

LocalChange ==
    \/ \E week \in SyncWeeks : addWeekData(week)
    \/ \E store \in {StoreNumber, appData.settings.storeNumber} :
          updateSettings([storeNumber |-> store])

NextSync ==
    \/ LocalChange
    \/ AutoSyncTimerFires
    \/ syncToCloud
    \/ loadFromCloud
    \/ \E i \in 1..MaxInFlight : ServerHandles(i)
    \/ \E i \in 1..MaxInFlight, outcome \in {"ok", "error"} : OperationSettles(i, outcome)

SpecSync == InitSync /\ [][NextSync]_vars

\* C28: isSyncing is true whenever at least one cloud operation is between
\* its start and its completion, also when two of them overlap, and false
\* once none is.
C28_SyncingWhileInProgress == isSyncing <=> Len(inFlight) > 0

\* two operations overlap and isSyncing is true
C28_Overlap ==
    /\ Len(inFlight) = 2
    /\ inFlight[1].kind = "read"
    /\ inFlight[2].kind = "write"
    /\ isSyncing

\* The same with every request answered without error
NextAutoSync ==
    \/ LocalChange
    \/ AutoSyncTimerFires
    \/ syncToCloud
    \/ loadFromCloud
    \/ \E i \in 1..MaxInFlight : ServerHandles(i)
    \/ \E i \in 1..MaxInFlight : OperationSettles(i, "ok")

SpecAutoSync == InitSync /\ [][NextAutoSync]_vars

\* a store number is configured, no timer is pending and no request is in
\* flight
Quiescent ==
    /\ appData.settings.storeNumber # NoStoreNumber
    /\ ~autoSyncTimer.armed
    /\ inFlight = <<>>

\* C29: with a store number configured, once the debounce timer has fired
\* and every write has completed without error, the row of the store holds
\* the latest local appData with the store number stripped, whatever the
\* order in which the writes completed.
C29_Converged ==
    Quiescent => cloud = [found |-> TRUE, data |-> prepareForStorage(appData)]

\* a local change written to the row by the timer's sync
C29_Synced ==
    /\ Quiescent
    /\ Len(appData.weeks) = 1
    /\ appData.weeks[1].cnl.signUps = 5
    /\ lastSyncedAt = "date"
    /\ cloud = [found |-> TRUE, data |-> prepareForStorage(appData)]

----------------------------------------------------------------------------
(* columnDetection.ts: resolveMapping *)

\* columnDetection.ts:12-23: the keys of the required fields
REQUIRED_FIELDS(datasetType) ==
    IF datasetType = "digitalReceipts" THEN <<"name", "captured", "totalTransactions">>
    ELSE IF datasetType = "ois" THEN <<"name", "revenue">>
    ELSE <<>>

\* columnDetection.ts:120-127
HARDCODED_MAPPINGS(datasetType) ==
    IF datasetType = "digitalReceipts"
    THEN [found |-> TRUE,
          map |-> [k \in {"name", "captured", "totalTransactions"} |->
                      IF k = "name" THEN "Employee Name & No"
                      ELSE IF k = "captured" THEN "Digital Receipts"
                      ELSE "Total Receipts"]]
    ELSE NoMapping

\* columnDetection.ts:39-49
loadSavedMapping(datasetType) == storedMappings[datasetType]

\* s.toLowerCase().replace(/[^a-z0-9]/g, '')
RECURSIVE Alphanumeric(_)
Alphanumeric(s) ==
    IF s = "" THEN ""
    ELSE LET c == LowerChar(Char(s, 1))
         IN  (IF IsDigit(c) \/ (\E i \in 1..26 : LowerCase[i] = c) THEN c ELSE "")
                 \o Alphanumeric(Tail(s))

\* s.includes(p)
includes(s, p) == \E i \in 1..(Len(s) + 1) : StartsWithAt(s, i, p)

\* columns.find(test), as the index of the first hit among hits (0: none)
FirstOf(hits) == IF hits = {} THEN 0 ELSE CHOOSE i \in hits : \A j \in hits : i <= j

\* columnDetection.ts:66-81; [found |-> FALSE] stands for undefined
autoDetectColumn(fieldKey, columns) ==
    LET normalisedKey == Alphanumeric(fieldKey)
        exact   == FirstOf({i \in 1..Len(columns) : Alphanumeric(columns[i]) = normalisedKey})
        partial == FirstOf({i \in 1..Len(columns) :
                              \/ includes(Alphanumeric(columns[i]), normalisedKey)
                              \/ includes(normalisedKey, Alphanumeric(columns[i]))})
    IN  IF exact # 0 /\ columns[exact] # "" THEN [found |-> TRUE, name |-> columns[exact]]
        ELSE IF partial # 0 THEN [found |-> TRUE, name |-> columns[partial]]
        ELSE [found |-> FALSE, name |-> NoMatch]

\* if (match)
Truthy(match) == match.found /\ match.name # ""

\* Object.values(mapping).every((col) => columns.includes(col))
allPresent(mapping, columns) ==
    \A k \in DOMAIN mapping : \E i \in 1..Len(columns) : columns[i] = mapping[k]

\* the fuzzy loop that leaves an unmatched field out
RECURSIVE DetectFieldsSkipUnmatched(_, _, _, _)
DetectFieldsSkipUnmatched(fields, i, columns, detected) ==
    IF i > Len(fields) THEN [found |-> TRUE, map |-> detected]
    ELSE LET match == autoDetectColumn(fields[i], columns)
         IN  DetectFieldsSkipUnmatched(fields, i + 1, columns,
                 IF Truthy(match) THEN MapSet(detected, fields[i], match.name)
                 ELSE detected)

\* columnDetection.ts:162-172: the loop over the fields from index i on
RECURSIVE DetectFields(_, _, _, _)
DetectFields(fields, i, columns, detected) ==
    IF i > Len(fields) THEN [found |-> TRUE, map |-> detected]
    ELSE LET match == autoDetectColumn(fields[i], columns)
         IN  IF Truthy(match)
             THEN DetectFields(fields, i + 1, columns, MapSet(detected, fields[i], match.name))
             ELSE NoMapping

\* columnDetection.ts:140-173; [found |-> FALSE] stands for null
resolveMapping(datasetType, columns) ==
    LET fields    == REQUIRED_FIELDS(datasetType)
        hardcoded == HARDCODED_MAPPINGS(datasetType)
        saved     == loadSavedMapping(datasetType)
    IN  IF Len(fields) = 0 THEN [found |-> TRUE, map |-> <<>>]
        ELSE IF hardcoded.found /\ allPresent(hardcoded.map, columns) THEN hardcoded
        ELSE IF saved.found /\ allPresent(saved.map, columns) THEN saved
        ELSE DetectFields(fields, 1, columns, <<>>)

MaxColumns == 3

ColumnNames == {"Employee Name & No", "Digital Receipts", "Total Receipts", "Revenue"}

SavedColumnNames == {"Revenue", "Total Receipts", "Sales"}

FieldKeys(datasetType) ==
    {REQUIRED_FIELDS(datasetType)[i] : i \in 1..Len(REQUIRED_FIELDS(datasetType))}

\* ColumnMapper (CnlQuickEntry.tsx:232-234, 271-274) and the upload flow
\* (part_006:402-414) are the writers of the saved mapping: it is absent, or
\* maps every required field of its dataset type to a column of an earlier
\* file
SavedMappings(datasetType) ==
    {NoMapping} \cup
        {[found |-> TRUE, map |-> f] : f \in [FieldKeys(datasetType) -> SavedColumnNames]}

InitMapping ==
    \E datasetType \in DatasetTypes, columns \in SeqsUpTo(ColumnNames, MaxColumns) :
        \E saved \in SavedMappings(datasetType) :
            /\ pc = "call"
            /\ allItems = <<>>
            /\ detectedWeekNumber = JsNull
            /\ sectionItems = <<>>
            /\ rows = <<>>
            /\ headerRowIndex = 0
            /\ headerPositions = <<>>
            /\ dataStartIndex = 0
            /\ canonicalNames = <<>>
            /\ result = ParseResult(<<>>, JsNull)
            /\ args = <<datasetType, columns>>
            /\ ret = <<>>
            /\ appData = EMPTY_APP_DATA
            /\ currentWeek = 0
            /\ isSyncing = FALSE
            /\ lastSyncedAt = "null"
            /\ syncError = "null"
            /\ autoSyncTimer = NoTimer
            /\ inFlight = <<>>
            /\ cloud = NoRow
            /\ storedAppData = EMPTY_APP_DATA
            /\ storedMappings = [t \in DatasetTypes |->
                                    IF t = datasetType THEN saved ELSE NoMapping]

CallResolveMapping ==
    /\ pc = "call"
    /\ ret' = resolveMapping(args[1], args[2])
    /\ pc' = "return"
    /\ UNCHANGED <<parseVars, args, appVars>>

SpecMapping == InitMapping /\ [][CallResolveMapping]_vars

InColumns(col) == \E i \in 1..Len(args[2]) : args[2][i] = col

============================================================================
